---- MODULE Spec2Model ----
(***************************************************************************)
(* Malcolm-Strict (Microsec): the request pipeline Client -> Load Balancer  *)
(* -> Worker, modelled from the eRPC implementations of the three contexts. *)
(*                                                                         *)
(* Every handler of the source is an operator from the component's state    *)
(* (a record with the fields of the C++ object) and the handler's inputs to *)
(* the state after the handler; the actions below wire these operators to   *)
(* the variables.  Time is a global integer `now`; each component reads it  *)
(* through its own clock.                                                   *)
(*                                                                         *)
(* Specifications:                                                          *)
(*   SpecClient  the client main loop against a network that answers in any *)
(*               order (two clients fed the same events, differing in the   *)
(*               advisory response fields);                                 *)
(*   SpecLB      the load balancer between several clients and the workers, *)
(*               which answer in any order;                                 *)
(*   SpecWorker  the split worker: the I/O thread and the compute threads   *)
(*               interleaved at every queue operation;                      *)
(*   SpecE2E     client, LB and worker end to end, run twice on the same    *)
(*               events with different worker clocks;                       *)
(*   SpecLBFair  SpecLB with an event loop that keeps handling responses;   *)
(*   SpecSched   one call of each scheduling policy on a vector of worker   *)
(*               states;                                                    *)
(*   SpecLBDispatch  the load balancer dispatching through the Malcolm      *)
(*               heuristic, with no response and no state update;           *)
(*   SpecLBHealth    SpecLBDispatch with the state-update thread;           *)
(*   SpecEDF     one deadline queue (locked heap or timing wheel) under     *)
(*               pushes, pops and histogram reads;                          *)
(*   SpecWorkerStop  the worker's threads while stop() runs;                *)
(*   SpecClientFair  SpecClient with a main loop and a clock that keep      *)
(*               going;                                                     *)
(*   SpecLocks   the mutexes of the LB and of the timing wheel, threads     *)
(*               interleaved at every lock operation;                       *)
(*   SpecWorkerFair  SpecWorker never stopped, with threads that keep       *)
(*               taking steps;                                              *)
(*   SpecStrict  one call of the Malcolm-Strict heuristic on workers of     *)
(*               different capacity;                                        *)
(*   SpecGen     two clients of different deadline configuration            *)
(*               generating and sending the same requests;                  *)
(*   SpecWorkerLocks  the mutexes of the worker's two queues, the I/O       *)
(*               thread and the compute threads interleaved at every lock   *)
(*               operation;                                                 *)
(*   SpecSPSC    the lock-free single-producer single-consumer ring, its    *)
(*               two threads interleaved at every load and store.           *)
(***************************************************************************)
EXTENDS Integers, Sequences, FiniteSets, TLC

VARIABLES
    now,        \* true time, shared by every clock of the model
    cli,        \* ClientContext (execution 1)
    cli2,       \* ClientContext (execution 2: same events, other advisory bytes)
    cpc,        \* position of the client main loop: "top" | "events" | "done"
    loop_now,   \* `now` sampled at the top of the current loop iteration
    wire,       \* requests of the client awaiting their response
    sent_log,   \* history: request_id -> what the send site did for it
    verdict,    \* history: request_id -> judgement of execution 1
    verdict2,   \* history: request_id -> judgement of execution 2
    adv_differed, \* history: a judged response differed in its advisory byte
    lb,         \* LBContext
    lb_next_id, \* client -> the request_id its next request carries
    lb_ctx,     \* the LBRequestContext objects alive: requests forwarded to a worker
    lb_resp,    \* responses the LB enqueued on client handles
    lb_unknown, \* number of "[LB] Unknown response" lines logged
    lb_hist,    \* history: client handle -> what the LB did for the request
    lb_last_update, \* the instant of the state thread's last update_worker_states
    lb_choices, \* history: the scheduler's decisions, in the order of dispatch
    lb_events,  \* history: the workers a request was dispatched to, or a response
                \* came from, since the state thread last ran
    wk,         \* WorkerContext (split worker: I/O thread and compute threads)
    wk_next,    \* the request_id of the next request the LB forwards to the worker
    wk_out,     \* responses the worker enqueued on request handles
    ea,         \* end-to-end execution A: client, LB, worker with a true clock
    eb,         \* end-to-end execution B: the same with a skewed worker clock
    sch_in,     \* inputs of one schedule() call: worker states, RNG draws, slack
    sch_out,    \* what the three policies returned for sch_in
    wk_order,   \* history: request ids in the order of the pushes into
                \* completion_queue_, and in the order of enqueue_response
    wk_run,     \* running_, rpc_ and the position of every thread and of stop()
    edf,        \* EDFQueue
    edf_log,    \* history: the last operation on edf and what it returned
    lk,         \* the mutexes' owners and what every thread has still to do
                \* with them in the call it is in
    gen,        \* two request generators with the requests they put on the wire
    spsc        \* an SPSCQueue with its producer and its consumer

clientVars == <<cli, cli2, cpc, loop_now, wire, sent_log, verdict, verdict2,
                adv_differed>>
lbVars == <<lb, lb_next_id, lb_ctx, lb_resp, lb_unknown, lb_hist, lb_last_update,
           lb_choices, lb_events>>
wkVars == <<wk, wk_next, wk_out, wk_order, wk_run>>
e2eVars == <<ea, eb>>
auxVars == <<gen, spsc>>
schVars == <<sch_in, sch_out, edf, edf_log, lk, auxVars>>
vars == <<now, clientVars, lbVars, wkVars, e2eVars, schVars>>

(***************************************************************************)
(* Bounds of the model.                                                     *)
(***************************************************************************)
\* Last instant of the model's clock.
MaxTime == 4
\* Number of requests the client generates at most.
MaxReq == 4
\* req_bufs_.size(): num_threads * 1000 in the source, scaled down.
buf_pool_size == 3
\* ClientContext::kMaxInflight: 64 in the source, scaled down with the pool
\* (the source keeps kMaxInflight < buf_pool_size).
kMaxInflight == 2
\* 1e9 / target_rps, in ticks of the model's clock.
interval_ns == 1
\* start_time_ + warmup, in ticks of the model's clock.
warmup_end == 1
\* Largest deadline window (service time * deadline_multiplier) generated.
MaxSlack == 2

\* config_.num_rpc_threads: the compute threads of the worker (8 in the source).
num_rpc_threads == 2
\* process_completions' batch_size: 32 in the source, scaled down.
kCompletionBatch == 1
\* Ticks of the model's clock per microsecond.
TicksPerUs == 1
\* config_.worker_id of the worker under study.
worker_id == 0
\* Requests the worker receives at most.
WkMaxReq == 2
\* Last instant of the clock while the worker is studied.
WkMaxTime == 2
\* Largest offset of the worker's clock from true time.
MaxSkew == 1

\* Requests the client sends at most in an end-to-end execution.
E2EMaxReq == 2
\* Last instant of the clock in an end-to-end execution.
E2EMaxTime == 2

\* Po2Scheduler's num_choices_.
num_choices_ == 2
\* Workers in the state vector handed to schedule().
NumSchedWorkers == 3

\* The heartbeat timeout of update_worker_states: ms_to_ns(1000) in the source,
\* scaled down.
unhealthy_timeout == 0

\* HierarchicalTimingWheel::kNumBuckets: 1024 in the source, scaled down.
kNumBuckets == 16
\* constants::kSlackHistogramBins.
kSlackHistogramBins == 32
\* Tasks pushed into the EDF queue at most.
EdfMaxTasks == 3
\* Last instant of the clock while the EDF queue is studied.
EdfMaxTime == 1

\* Requests dispatched at most while the scheduler's decisions are studied.
MaxDispatch == 8

\* Requests each client sends to the load balancer at most.
LBMaxReq == 1
\* Last instant of the clock while the load balancer is studied.
LBMaxTime == 1

Times == 0..MaxTime
Slots == 0..(buf_pool_size - 1)
ReqIds == 0..(MaxReq - 1)
Bytes01 == {0, 1}

(***************************************************************************)
(* Client: src/src/client/client_context.cpp (eRPC implementation).         *)
(***************************************************************************)
\* The state after ClientContext::run() has allocated its buffers.
ClientInit ==
    [ local_req_id        |-> 0,
      inflight_requests_  |-> 0,
      sent_requests_      |-> 0,
      completed_requests_ |-> 0,
      req_deadlines_      |-> [i \in Slots |-> 0],
      in_warmup_          |-> TRUE,
      next_send           |-> 0,
      total_requests      |-> 0,     \* metrics_.total_requests_
      deadline_misses     |-> 0 ]    \* metrics_.deadline_misses_

\* RequestGenerator::generate(): the deadline is the generator's clock reading
\* plus the deadline window.
generate(t, slack) == [ deadline |-> t + slack ]

\* The warm-up check of one loop iteration.
WarmupCheck(c, lnow) ==
    IF c.in_warmup_ /\ lnow >= warmup_end
    THEN [c EXCEPT !.in_warmup_ = FALSE, !.total_requests = 0, !.deadline_misses = 0]
    ELSE c

\* The condition of the send site.
SendAllowedNoInflightCheck(c, lnow) ==
    lnow >= c.next_send

SendAllowed(c, lnow) ==
    LET available_bufs == buf_pool_size - c.inflight_requests_
    IN  /\ lnow >= c.next_send
        /\ c.inflight_requests_ < kMaxInflight
        /\ available_bufs > 0

\* The slot the send site picks: local_req_id has been incremented already.
SlotOf(c) == (c.local_req_id + 1) % buf_pool_size

\* The body of the send site: the request is generated at time t.
SendSiteBackfills(c, lnow, t, slack) ==
    LET creq == generate(t, slack)
        idx  == SlotOf(c)
    IN  [c EXCEPT !.local_req_id = @ + 1,
                  !.req_deadlines_[idx] = creq.deadline,
                  !.inflight_requests_ = @ + 1,
                  !.sent_requests_ = @ + 1,
                  !.next_send = c.next_send + interval_ns]

SendSite(c, lnow, t, slack) ==
    LET creq == generate(t, slack)
        idx  == SlotOf(c)
        ns   == c.next_send + interval_ns
    IN  [c EXCEPT !.local_req_id = @ + 1,
                  !.req_deadlines_[idx] = creq.deadline,
                  !.inflight_requests_ = @ + 1,
                  !.sent_requests_ = @ + 1,
                  !.next_send = IF ns < lnow THEN lnow ELSE ns]

\* ClientContext::response_callback with tag idx, the response in
\* resp_bufs_[idx] and the clock reading recv_time.
response_callback_advisory(c, idx, response, recv_time) ==
    IF idx >= buf_pool_size THEN c
    ELSE [c EXCEPT
            !.total_requests = IF ~c.in_warmup_ THEN @ + 1 ELSE @,
            !.deadline_misses =
                IF ~c.in_warmup_ /\ response.deadline_met = 0 THEN @ + 1 ELSE @,
            !.inflight_requests_ = @ - 1,
            !.completed_requests_ = @ + 1]

response_callback(c, idx, response, recv_time) ==
    IF idx >= buf_pool_size THEN c
    ELSE LET original_deadline   == c.req_deadlines_[idx]
             actual_deadline_met == (recv_time <= original_deadline)
         IN  [c EXCEPT
                !.total_requests = IF ~c.in_warmup_ THEN @ + 1 ELSE @,
                !.deadline_misses =
                    IF ~c.in_warmup_ /\ ~actual_deadline_met THEN @ + 1 ELSE @,
                !.inflight_requests_ = @ - 1,
                !.completed_requests_ = @ + 1]

\* What a callback decided, read off the metrics it changed.
Judgement(c, cAfter) ==
    IF c.in_warmup_ THEN "warmup"
    ELSE IF cAfter.deadline_misses > c.deadline_misses THEN "miss" ELSE "hit"

(***************************************************************************)
(* Load balancer: src/unnamed/part_005 (eRPC implementation of LBContext).  *)
(***************************************************************************)
\* Clients by client_id; workers by their index in config_.worker_addresses,
\* which is also the --id each worker is started with.
Clients == {0, 1}
Workers == {0, 1}

\* The value a WorkerState or a pending table holds before any request.
EmptyMap == [k \in {} |-> 0]

\* WorkerState::capacity_factor is a double; it is kept in units of
\* 1 / CapacityUnit, so that CapacityUnit is the baseline 1.0.
CapacityUnit == 2

\* WorkerState::update_load_ema with alpha = 0.1; load_ema is kept in
\* thousandths; capacity_factor is the 1.0 the constructor sets; of
\* slack_histogram the model keeps the four buckets the schedulers read.
update_load_ema_keeps(load_ema, new_load) == load_ema

update_load_ema(load_ema, new_load) == (100 * new_load * 10 + 9 * load_ema) \div 10

\* LBContext::LBContext and the sessions start() created: a worker whose
\* create_session failed keeps the session number -1.
LBInitStatesOver(W) ==
    { [ pending_requests_ |-> EmptyMap,
        worker_states_    |-> [w \in W |->
                                 [queue_length |-> 0, load_ema |-> 0,
                                  avg_service_time |-> 0, is_healthy |-> TRUE,
                                  p99_latency |-> 0, capacity_factor |-> CapacityUnit,
                                  slack_histogram |-> [b \in 0..3 |-> 0],
                                  last_heartbeat |-> 0]],
        worker_sessions_  |-> sess,
        total_requests    |-> 0,      \* metrics_.total_requests_
        deadline_misses   |-> 0,      \* metrics_.deadline_misses_
        feedback_calls    |-> 0 ]     \* scheduler_->on_request_complete calls
      : sess \in [W -> {-1, 7}] }

LBInitStates == LBInitStatesOver(Workers)

\* The key the pending table files a request under.
PendingKey(request) == request.request_id

\* LBContext::client_request_handler for the request on req_handle, received
\* at recv_time, with the scheduler's decision target.  Yields the LB after
\* the handler and the requests it enqueued to workers.
client_request_handler(L, req_handle, request, recv_time, target) ==
    LET pending == [ request_id    |-> request.request_id,
                     send_time     |-> request.client_send_time,
                     deadline      |-> request.deadline,
                     client_handle |-> req_handle,
                     target_worker |-> target ]
        L1 == [L EXCEPT !.pending_requests_ = (PendingKey(request) :> pending) @@ @]
        ql == L1.worker_states_[target].queue_length + 1
        L2 == [L1 EXCEPT !.worker_states_[target].queue_length = ql,
                         !.worker_states_[target].load_ema = update_load_ema(@, ql)]
        wreq == [ request_id        |-> request.request_id,
                  client_send_time  |-> request.client_send_time,
                  deadline          |-> request.deadline,
                  lb_forward_time   |-> recv_time,
                  service_time_hint |-> request.service_time_hint,
                  worker_id         |-> target ]
    IN  [ lb   |-> L2,
          sent |-> IF L.worker_sessions_[target] < 0 THEN {}
                   ELSE {[client_handle |-> req_handle, req |-> wreq]} ]

\* The worker whose state a response updates.
ResponseWorkerFromPending(wresp, pending) == pending.target_worker

ResponseWorker(wresp, pending) == wresp.worker_id

\* The update of the worker's state by a correlated response.
UpdateWorkerOnResponse(L, w, wresp) ==
    LET ql == IF L.worker_states_[w].queue_length > 0
              THEN L.worker_states_[w].queue_length - 1
              ELSE L.worker_states_[w].queue_length
    IN  [L EXCEPT !.worker_states_[w].queue_length = ql,
                  !.worker_states_[w].load_ema = update_load_ema(@, ql),
                  !.worker_states_[w].avg_service_time =
                        (9 * @ + wresp.service_time_us * 1000) \div 10]

\* worker_response_callback when the response's id has no pending entry: the
\* line is logged, the context freed, nothing else.
UnknownResponseUpdatesWorker(L, wresp) ==
    [ lb |-> UpdateWorkerOnResponse(L, wresp.worker_id, wresp),
      resp |-> {}, unknown |-> TRUE, read |-> EmptyMap ]

UnknownResponse(L, wresp) ==
    [ lb |-> L, resp |-> {}, unknown |-> TRUE, read |-> EmptyMap ]

\* LBContext::worker_response_callback with tag ctx, the worker's response in
\* ctx->resp_buf, the clock reading complete_time; t7_miss is what
\* trace.is_deadline_miss() yields on the trace's uninitialised t7_client_recv.
\* Yields the LB after the callback, the responses enqueued to clients, whether
\* the response was logged as unknown, and the pending entry it read.
worker_response_callback(L, ctx, wresp, complete_time, t7_miss) ==
    LET key == wresp.request_id
    IN  IF key \notin DOMAIN L.pending_requests_
        THEN UnknownResponse(L, wresp)
        ELSE
          LET pending == L.pending_requests_[key]
              L1 == [L EXCEPT !.pending_requests_ =
                                  [k \in (DOMAIN @) \ {key} |-> @[k]]]
              L2 == UpdateWorkerOnResponse(L1, ResponseWorker(wresp, pending), wresp)
              L3 == [L2 EXCEPT !.total_requests = @ + 1,
                               !.deadline_misses = IF t7_miss THEN @ + 1 ELSE @,
                               !.feedback_calls = @ + 1]
              cresp == [ request_id       |-> wresp.request_id,
                         client_send_time |-> pending.send_time,
                         e2e_latency_ns   |-> complete_time - pending.send_time,
                         service_time_us  |-> wresp.service_time_us,
                         worker_id        |-> wresp.worker_id,
                         deadline_met     |-> IF complete_time <= pending.deadline
                                              THEN 1 ELSE 0,
                         success          |-> wresp.success ]
          IN  [ lb |-> L3,
                resp |-> {[client_handle |-> ctx.client_handle, resp |-> cresp]},
                unknown |-> FALSE,
                read |-> pending ]

\* Unit conversions of types.h on the model's clock.
us_to_ns(us) == us * TicksPerUs
ns_to_us(ns) == ns \div TicksPerUs

(***************************************************************************)
(* The EDF queue of src/src/scheduler/edf_queue.h.  A Task is the record of *)
(* its request_id and deadline; a heap is the vector of the priority_queue, *)
(* element i of the C++ vector at position i + 1.                           *)
(***************************************************************************)
\* Task::operator> and Task::operator<.
TaskGreaterReversed(a, b) == a.deadline < b.deadline

TaskGreater(a, b) == a.deadline > b.deadline

TaskLess(a, b) == a.deadline < b.deadline

\* Task::slack_time and Task::is_expired.
slack_time(task, t) == task.deadline - t

is_expired(task, t) == task.deadline <= t

\* std::__push_heap with std::greater<Task>: value rises from hole while its
\* parent compares greater.
RECURSIVE PushHeap(_, _, _)
PushHeap(heap, hole, value) ==
    LET parent == (hole - 1) \div 2
    IN  IF hole > 0 /\ TaskGreater(heap[parent + 1], value)
        THEN PushHeap([heap EXCEPT ![hole + 1] = heap[parent + 1]], parent, value)
        ELSE [heap EXCEPT ![hole + 1] = value]

\* std::__adjust_heap: the hole sinks to the bottom along the children that do
\* not compare greater, then value rises from there.
RECURSIVE AdjustHeap(_, _, _)
AdjustHeap(heap, hole, value) ==
    LET len == Len(heap)
        second == 2 * (hole + 1)
        child == IF TaskGreater(heap[second + 1], heap[second]) THEN second - 1
                 ELSE second
    IN  IF second < len
        THEN AdjustHeap([heap EXCEPT ![hole + 1] = heap[child + 1]], child, value)
        ELSE IF second = len
        THEN PushHeap([heap EXCEPT ![hole + 1] = heap[second]], second - 1, value)
        ELSE PushHeap(heap, hole, value)

\* EDFQueueLocked::push: heap_.push is push_back and push_heap.
locked_push(heap, task) == PushHeap(Append(heap, task), Len(heap), task)

\* EDFQueueLocked::try_pop: heap_.top() and heap_.pop(), which is pop_heap
\* and pop_back.
locked_try_pop(heap) ==
    IF heap = <<>> THEN [ok |-> FALSE, heap |-> heap]
    ELSE [ ok   |-> TRUE,
           task |-> heap[1],
           heap |-> IF Len(heap) = 1 THEN <<>>
                    ELSE AdjustHeap(SubSeq(heap, 1, Len(heap) - 1), 0,
                                    heap[Len(heap)]) ]

\* EDFQueueLocked::get_expired at clock reading t: pops while the top's
\* deadline has been reached; `expired` is the vector built so far.
RECURSIVE locked_get_expired_strict(_, _, _)
locked_get_expired_strict(heap, t, expired) ==
    IF heap # <<>> /\ heap[1].deadline < t
    THEN locked_get_expired_strict(locked_try_pop(heap).heap, t, Append(expired, heap[1]))
    ELSE [heap |-> heap, expired |-> expired]

RECURSIVE locked_get_expired(_, _, _)
locked_get_expired(heap, t, expired) ==
    IF heap # <<>> /\ heap[1].deadline <= t
    THEN locked_get_expired(locked_try_pop(heap).heap, t, Append(expired, heap[1]))
    ELSE [heap |-> heap, expired |-> expired]

\* HierarchicalTimingWheel::kBucketWidthNs (1 us) and constants::kSlackBinWidth.
kBucketWidthNs == us_to_ns(1)
kSlackBinWidth == us_to_ns(100)

WheelBuckets == 0..(kNumBuckets - 1)

\* HierarchicalTimingWheel::HierarchicalTimingWheel.
WheelInit == [ buckets_ |-> [b \in WheelBuckets |-> <<>>], total_size_ |-> 0 ]

\* HierarchicalTimingWheel::insert.
insert(wheel, task) ==
    LET bucket_idx == (task.deadline \div kBucketWidthNs) % kNumBuckets
    IN  [wheel EXCEPT !.buckets_[bucket_idx] = Append(@, task),
                      !.total_size_ = @ + 1]

\* std::min_element over tasks[i..]: the first task no later one is less than.
RECURSIVE min_element(_, _, _)
min_element(tasks, i, best) ==
    IF i > Len(tasks) THEN best
    ELSE IF TaskLess(tasks[i], tasks[best]) THEN min_element(tasks, i + 1, i)
    ELSE min_element(tasks, i + 1, best)

\* The bucket try_get_urgent looks at in iteration offset of its loop.
ScanIndexForward(current_bucket, offset) == (current_bucket + offset) % kNumBuckets

ScanIndex(current_bucket, offset) ==
    (current_bucket - offset + kNumBuckets) % kNumBuckets

RemoveAt(tasks, i) == SubSeq(tasks, 1, i - 1) \o SubSeq(tasks, i + 1, Len(tasks))

\* HierarchicalTimingWheel::try_get_urgent, its loop from offset on.
RECURSIVE ScanBuckets(_, _, _)
ScanBuckets(wheel, current_bucket, offset) ==
    IF offset >= kNumBuckets \div 8 THEN [ok |-> FALSE, wheel |-> wheel]
    ELSE LET idx == ScanIndex(current_bucket, offset)
             tasks == wheel.buckets_[idx]
             it == min_element(tasks, 2, 1)
         IN  IF tasks # <<>>
             THEN [ ok |-> TRUE, task |-> tasks[it],
                    wheel |-> [wheel EXCEPT !.buckets_[idx] = RemoveAt(tasks, it),
                                            !.total_size_ = @ - 1] ]
             ELSE ScanBuckets(wheel, current_bucket, offset + 1)

try_get_urgent(wheel, t) ==
    ScanBuckets(wheel, (t \div kBucketWidthNs) % kNumBuckets, 0)

\* The bin get_slack_histogram counts a task in.
\* The bin of a task's slack at clock reading t.
SlackBinNoOffset(task, t) ==
    LET slack == slack_time(task, t)
        wide == slack \div kSlackBinWidth
    IN  IF slack > 0
        THEN (IF wide < kSlackHistogramBins - 1 THEN wide
              ELSE kSlackHistogramBins - 1)
        ELSE 0

SlackBin(task, t) ==
    LET slack == slack_time(task, t)
        wide == slack \div kSlackBinWidth + 1
    IN  IF slack > 0
        THEN (IF wide < kSlackHistogramBins - 1 THEN wide
              ELSE kSlackHistogramBins - 1)
        ELSE 0

\* The tasks of buckets 0..b falling in bin.
RECURSIVE CountBin(_, _, _, _)
CountBin(wheel, b, bin, t) ==
    IF b < 0 THEN 0
    ELSE Cardinality({i \in DOMAIN wheel.buckets_[b] :
                         SlackBin(wheel.buckets_[b][i], t) = bin})
           + CountBin(wheel, b - 1, bin, t)

\* HierarchicalTimingWheel::get_slack_histogram.
wheel_get_slack_histogram(wheel, t) ==
    [bin \in 0..(kSlackHistogramBins - 1) |-> CountBin(wheel, kNumBuckets - 1, bin, t)]

\* EDFQueue::EDFQueue.
EDFQueueInit(impl) ==
    [ impl_ |-> impl, locked_queue_ |-> <<>>, timing_wheel_ |-> WheelInit ]

\* EDFQueue::push, try_pop, size and get_slack_histogram.
edf_push(q, task) ==
    IF q.impl_ = "kLocked"
    THEN [q EXCEPT !.locked_queue_ = locked_push(@, task)]
    ELSE [q EXCEPT !.timing_wheel_ = insert(@, task)]

edf_try_pop(q, t) ==
    IF q.impl_ = "kLocked"
    THEN LET r == locked_try_pop(q.locked_queue_)
         IN  [ ok |-> r.ok, task |-> IF r.ok THEN r.task ELSE EmptyMap,
               q |-> [q EXCEPT !.locked_queue_ = r.heap] ]
    ELSE LET r == try_get_urgent(q.timing_wheel_, t)
         IN  [ ok |-> r.ok, task |-> IF r.ok THEN r.task ELSE EmptyMap,
               q |-> [q EXCEPT !.timing_wheel_ = r.wheel] ]

edf_size(q) ==
    IF q.impl_ = "kLocked" THEN Len(q.locked_queue_)
    ELSE q.timing_wheel_.total_size_

edf_get_slack_histogram(q, t) == wheel_get_slack_histogram(q.timing_wheel_, t)

(***************************************************************************)
(* Schedulers: src/unnamed/part_010 (Po2Scheduler, MalcolmScheduler) and    *)
(* src/src/scheduler/malcolm_strict_scheduler.h.  worker_states is a        *)
(* function from 0..n-1 to WorkerState records.                             *)
(***************************************************************************)
\* Po2Scheduler::schedule, the sampling loop from iteration i on: draws[i] is
\* the value dist(rng_) yields in iteration i.
RECURSIVE Po2Sample(_, _, _)
Po2Sample(draws, i, candidates) ==
    IF i > num_choices_ THEN candidates
    ELSE LET idx == draws[i]
             duplicate == \E k \in 1..Len(candidates) : candidates[k] = idx
         IN  Po2Sample(draws, i + 1,
                       IF ~duplicate \/ Len(candidates) < num_choices_
                       THEN Append(candidates, idx) ELSE candidates)

\* Po2Scheduler::schedule, the comparison loop from candidate i on.
RECURSIVE Po2Compare(_, _, _, _, _)
Po2Compare(candidates, i, best_idx, best_load, worker_states) ==
    IF i > Len(candidates) THEN best_idx
    ELSE LET idx == candidates[i]
             state == worker_states[idx]
         IN  IF ~state.is_healthy
             THEN Po2Compare(candidates, i + 1, best_idx, best_load, worker_states)
             ELSE IF state.load_ema < best_load
             THEN Po2Compare(candidates, i + 1, idx, state.load_ema, worker_states)
             ELSE Po2Compare(candidates, i + 1, best_idx, best_load, worker_states)

\* Po2Scheduler::schedule, the choice among the candidates.
Po2SelectFirst(candidates, worker_states) == candidates[1]

Po2Select(candidates, worker_states) ==
    Po2Compare(candidates, 2, candidates[1],
               worker_states[candidates[1]].load_ema, worker_states)

\* Po2Scheduler::schedule: the target worker for the RNG draws.
Po2Schedule(draws, worker_states) ==
    Po2Select(Po2Sample(draws, 1, <<>>), worker_states)

\* std::accumulate over the load_ema of workers 0..i.
RECURSIVE SumLoads(_, _)
SumLoads(worker_states, i) ==
    IF i < 0 THEN 0 ELSE worker_states[i].load_ema + SumLoads(worker_states, i - 1)

\* MalcolmScheduler::schedule_heuristic's delta for worker i, times n*n, with
\* loads in thousandths: (new_load - mean)^2 - (old_load - mean)^2.
MalcolmDelta(worker_states, i) ==
    LET n == Cardinality(DOMAIN worker_states)
        sum == SumLoads(worker_states, n - 1)
        old_load == worker_states[i].load_ema
        new_load == old_load + 1000
    IN  (n * new_load - sum) * (n * new_load - sum)
          - (n * old_load - sum) * (n * old_load - sum)

\* MalcolmScheduler::schedule_heuristic, the loop from worker i on; min is <<>>
\* while min_variance_increase holds numeric_limits<double>::max().
RECURSIVE MalcolmLoopLastWins(_, _, _, _)
MalcolmLoopLastWins(worker_states, i, best_worker, min) ==
    IF i >= Cardinality(DOMAIN worker_states) THEN best_worker
    ELSE IF ~worker_states[i].is_healthy
    THEN MalcolmLoopLastWins(worker_states, i + 1, best_worker, min)
    ELSE LET delta == MalcolmDelta(worker_states, i)
         IN  IF min = <<>> \/ delta <= min[1]
             THEN MalcolmLoopLastWins(worker_states, i + 1, i, <<delta>>)
             ELSE MalcolmLoopLastWins(worker_states, i + 1, best_worker, min)

RECURSIVE MalcolmLoop(_, _, _, _)
MalcolmLoop(worker_states, i, best_worker, min) ==
    IF i >= Cardinality(DOMAIN worker_states) THEN best_worker
    ELSE IF ~worker_states[i].is_healthy
    THEN MalcolmLoop(worker_states, i + 1, best_worker, min)
    ELSE LET delta == MalcolmDelta(worker_states, i)
         IN  IF min = <<>> \/ delta < min[1]
             THEN MalcolmLoop(worker_states, i + 1, i, <<delta>>)
             ELSE MalcolmLoop(worker_states, i + 1, best_worker, min)

\* MalcolmScheduler::schedule_heuristic.
malcolm_schedule_heuristic_last_wins(worker_states) ==
    MalcolmLoopLastWins(worker_states, 0, 0, <<>>)

malcolm_schedule_heuristic(worker_states) == MalcolmLoop(worker_states, 0, 0, <<>>)

\* MalcolmStrictScheduler::schedule_heuristic's risk of worker state ws for a
\* request whose deadline is `to_deadline` after now, times us_to_ns(100)
\* and times CapacityUnit.
StrictRisk(ws, to_deadline) ==
    LET width == us_to_ns(100)
        base == (ws.queue_length * 100 * width + (ws.p99_latency * width) \div 1000)
                  * (2 * CapacityUnit - ws.capacity_factor)
        urgent_tasks == ws.slack_histogram[0] + ws.slack_histogram[1]
                          + ws.slack_histogram[2] + ws.slack_histogram[3]
        expected_latency == ws.avg_service_time * (1 + ws.queue_length)
        slack == to_deadline - expected_latency
        penalty == IF slack < 0 THEN 1000000 * width
                   ELSE IF slack < width THEN 10000 * (width - slack)
                   ELSE 0
    IN  base + CapacityUnit * (urgent_tasks * 500 * width + penalty)

\* MalcolmStrictScheduler::schedule_heuristic, the loop from worker i on.
RECURSIVE StrictLoop(_, _, _, _, _)
StrictLoop(worker_states, to_deadline, i, best_worker, min) ==
    IF i >= Cardinality(DOMAIN worker_states) THEN best_worker
    ELSE IF ~worker_states[i].is_healthy
    THEN StrictLoop(worker_states, to_deadline, i + 1, best_worker, min)
    ELSE LET risk == StrictRisk(worker_states[i], to_deadline)
         IN  IF min = <<>> \/ risk < min[1]
             THEN StrictLoop(worker_states, to_deadline, i + 1, i, <<risk>>)
             ELSE StrictLoop(worker_states, to_deadline, i + 1, best_worker, min)

\* MalcolmStrictScheduler::schedule_heuristic.
strict_schedule_heuristic(worker_states, to_deadline) ==
    StrictLoop(worker_states, to_deadline, 0, 0, <<>>)

(***************************************************************************)
(* Worker: src/src/worker/worker_context_erpc.cpp (split implementation:    *)
(* the main thread runs the eRPC event loop, compute threads run            *)
(* process_tasks).                                                          *)
(***************************************************************************)
\* The thread that created the Rpc object and runs start()'s loop, and the
\* compute threads start() spawned.
IOThread == 0
ComputeThreads == 1..num_rpc_threads

\* The stages of a request inside the worker.
Stages == <<"receive", "task_queue_", "compute", "completion_queue_", "enqueue_response">>

\* now_ns() on the worker node at true time t.
WorkerClock(W, t) == t + W.clock_skew

\* The state after WorkerContext::start() has spawned the compute threads.
WorkerInit(skew) ==
    [ task_queue_         |-> <<>>,
      completion_queue_   |-> <<>>,
      held                |-> [th \in ComputeThreads |-> <<>>],  \* process_tasks' local `task`
      start               |-> [th \in ComputeThreads |-> 0],     \* process_tasks' local `start`
      active_requests_    |-> 0,
      completed_requests_ |-> 0,
      deadline_misses     |-> 0,      \* metrics_.deadline_misses_
      io_pc               |-> "event_loop",
      batch_size          |-> 0,      \* process_completions' local `batch_size`
      clock_skew          |-> skew,
      rpc_log             |-> {},     \* history: who invoked which RPC primitive
      stage_log           |-> EmptyMap ]  \* history: request_id -> stages gone through

\* History: thread th invokes the RPC primitive prim.
LogRpc(W, th, prim) ==
    [W EXCEPT !.rpc_log = @ \cup {[thread |-> th, primitive |-> prim]}]

\* History: request id enters a stage.
LogStage(W, id, stage) ==
    [W EXCEPT !.stage_log =
        IF id \in DOMAIN @ THEN [@ EXCEPT ![id] = Append(@, stage)]
        ELSE (id :> <<stage>>) @@ @]

\* ThreadSafeTaskQueue::push and try_pop, each under the queue's mutex.
\* A queue that is served last-in first-out.
push_front(queue, task) == <<task>> \o queue

push(queue, task) == Append(queue, task)

try_pop_front_only(queue) ==
    IF queue = <<>> THEN [ok |-> FALSE, queue |-> queue]
    ELSE [ok |-> TRUE, task |-> Head(queue), queue |-> queue]

try_pop(queue) ==
    IF queue = <<>> THEN [ok |-> FALSE, queue |-> queue]
    ELSE [ok |-> TRUE, task |-> Head(queue), queue |-> Tail(queue)]

\* WorkerContext::request_handler for the request on req_handle at true time t.
request_handler(W, req_handle, request, t) ==
    LET recv_time == WorkerClock(W, t)
        task == [ request_id             |-> request.request_id,
                  deadline               |-> request.deadline,
                  arrival_time           |-> recv_time,
                  request_handle         |-> req_handle,
                  service_time_hint      |-> request.service_time_hint,
                  worker_done_time       |-> 0,
                  actual_service_time_us |-> 0,
                  queue_time_ns          |-> 0 ]
        W1 == LogStage(W, request.request_id, "receive")
        W2 == [W1 EXCEPT !.task_queue_ = push(@, task),
                         !.active_requests_ = @ + 1]
    IN  LogStage(W2, request.request_id, "task_queue_")

\* rpc_->run_event_loop_once() called by thread th: the handler runs for every
\* request of `delivered` (a sequence of <<req_handle, request>>).
RECURSIVE RunHandlers(_, _, _)
RunHandlers(W, delivered, t) ==
    IF delivered = <<>> THEN W
    ELSE RunHandlers(request_handler(W, Head(delivered)[1], Head(delivered)[2], t),
                     Tail(delivered), t)

run_event_loop_once(W, th, delivered, t) ==
    RunHandlers(LogRpc(W, th, "run_event_loop_once"), delivered, t)

\* process_tasks of compute thread th up to the start of the simulated work:
\* try_pop, and the first clock reading.
process_tasks_pop(W, th, t) ==
    LET r == try_pop(W.task_queue_)
    IN  IF ~r.ok THEN W
        ELSE LET start == WorkerClock(W, t)
                 task  == [r.task EXCEPT !.queue_time_ns = start - r.task.arrival_time]
             IN  LogStage([W EXCEPT !.task_queue_ = r.queue,
                                    !.held[th] = <<task>>,
                                    !.start[th] = start],
                          task.request_id, "compute")

\* WorkloadSimulator::process busy-waits until the clock has advanced by the
\* expected service time (capacity factor 1, a GET request).
SimulatorDone(W, th, t) ==
    LET task == W.held[th][1]
        expected_service_us == IF task.service_time_hint > 0
                               THEN task.service_time_hint ELSE 10
    IN  WorkerClock(W, t) >= W.start[th] + us_to_ns(expected_service_us)

\* The rest of process_tasks of compute thread th, once the simulated work has
\* returned at true time t.  Yields the worker and the responses enqueued.
process_tasks_replies_inline(W, th, t) ==
    LET task == W.held[th][1]
        done_time == WorkerClock(W, t)
        response == [ request_id |-> task.request_id, worker_id |-> worker_id,
                      service_time_us |-> ns_to_us(done_time - W.start[th]),
                      queue_length |-> Len(W.task_queue_), success |-> 1 ]
        W1 == [W EXCEPT !.held[th] = <<>>, !.start[th] = 0,
                        !.deadline_misses = IF done_time <= task.deadline THEN @ ELSE @ + 1,
                        !.active_requests_ = @ - 1,
                        !.completed_requests_ = @ + 1]
    IN  [ wk |-> LogStage(LogRpc(LogRpc(W1, th, "resize_msg_buffer"), th, "enqueue_response"),
                          task.request_id, "enqueue_response"),
          resp |-> {[req_handle |-> task.request_handle, resp |-> response]} ]

process_tasks_drops_late(W, th, t) ==
    LET task == W.held[th][1]
        done_time == WorkerClock(W, t)
        deadline_met == done_time <= task.deadline
        done == [task EXCEPT !.worker_done_time = done_time,
                             !.actual_service_time_us = done_time - W.start[th]]
        W1 == [W EXCEPT !.held[th] = <<>>, !.start[th] = 0,
                        !.deadline_misses = IF deadline_met THEN @ ELSE @ + 1,
                        !.completion_queue_ = IF deadline_met THEN push(@, done) ELSE @,
                        !.active_requests_ = @ - 1,
                        !.completed_requests_ = @ + 1]
    IN  [ wk |-> IF deadline_met THEN LogStage(W1, task.request_id, "completion_queue_")
                 ELSE W1,
          resp |-> {} ]

process_tasks_finish(W, th, t) ==
    LET task == W.held[th][1]
        done_time == WorkerClock(W, t)
        deadline_met == done_time <= task.deadline
        done == [task EXCEPT !.worker_done_time = done_time,
                             !.actual_service_time_us = done_time - W.start[th]]
        W1 == [W EXCEPT !.held[th] = <<>>, !.start[th] = 0,
                        !.deadline_misses = IF deadline_met THEN @ ELSE @ + 1,
                        !.completion_queue_ = push(@, done),
                        !.active_requests_ = @ - 1,
                        !.completed_requests_ = @ + 1]
    IN  [ wk |-> LogStage(W1, task.request_id, "completion_queue_"),
          resp |-> {} ]

\* process_completions called by thread th: the declaration of batch_size.
process_completions_begin_no_batch(W) ==
    [W EXCEPT !.io_pc = "completions", !.batch_size = 0]

process_completions_begin(W) ==
    [W EXCEPT !.io_pc = "completions", !.batch_size = kCompletionBatch]

\* One evaluation of process_completions' loop condition and, if it holds, of
\* the loop body.  Yields the worker and the responses enqueued.
process_completions_step(W, th) ==
    LET r == try_pop(W.completion_queue_)
    IN  IF ~(W.batch_size > 0 /\ r.ok)
        THEN [ wk |-> [W EXCEPT !.io_pc = "event_loop", !.batch_size = 0],
               resp |-> {} ]
        ELSE LET task == r.task
                 response == [ request_id |-> task.request_id,
                               worker_id |-> worker_id,
                               service_time_us |-> ns_to_us(task.actual_service_time_us),
                               queue_length |-> Len(W.task_queue_),
                               success |-> 1 ]
                 W1 == [W EXCEPT !.completion_queue_ = r.queue,
                                 !.batch_size = @ - 1]
                 W2 == LogRpc(LogRpc(W1, th, "resize_msg_buffer"), th, "enqueue_response")
             IN  [ wk |-> LogStage(W2, task.request_id, "enqueue_response"),
                   resp |-> {[req_handle |-> task.request_handle, resp |-> response]} ]

\* process_completions' loop when stop() has deleted rpc_ and set it to
\* nullptr: the task is popped, `if (task.request_handle && rpc_)` fails and
\* nothing is sent.
process_completions_step_no_rpc(W) ==
    LET r == try_pop(W.completion_queue_)
    IN  IF ~(W.batch_size > 0 /\ r.ok)
        THEN [ wk |-> [W EXCEPT !.io_pc = "event_loop", !.batch_size = 0],
               resp |-> {} ]
        ELSE [ wk |-> [W EXCEPT !.completion_queue_ = r.queue, !.batch_size = @ - 1],
               resp |-> {} ]

\* The threads of the worker.
Threads == {IOThread} \cup ComputeThreads

\* running_, rpc_ and the threads once start() has spawned the compute
\* threads and reached its loop; stop() has not been called.
WorkerRunInit ==
    [ running_   |-> TRUE,
      rpc_       |-> "alive",
      stop_pc    |-> "none",       \* stop(): "none" | "joining" | "done"
      pc         |-> [th \in Threads |-> "check"],
      after_stop |-> [th \in ComputeThreads |-> 0] ]  \* history: tasks finished
                                                       \* after running_ was cleared

\* `while (running_.load())` of start() and of compute_thread_main.
loop_check(R, th) ==
    [R EXCEPT !.pc[th] = IF R.running_ THEN "body" ELSE "exited"]

\* stop() up to the joins: running_.exchange(false).
stop_clear(R) ==
    IF ~R.running_ THEN R
    ELSE [R EXCEPT !.running_ = FALSE, !.stop_pc = "joining"]

\* stop() once every compute thread has been joined: delete rpc_.
stop_join(R) == [R EXCEPT !.rpc_ = "deleted", !.stop_pc = "done"]

\* LBContext::update_worker_states at clock reading t: the heartbeat check
\* (whose body is commented out in the source) and the decay of load_ema,
\* which is kept in thousandths.
update_worker_states(L, t) ==
    [L EXCEPT !.worker_states_ =
        [w \in DOMAIN L.worker_states_ |->
            LET ws == L.worker_states_[w]
            IN  [ws EXCEPT !.is_healthy =
                               IF t - ws.last_heartbeat > unhealthy_timeout
                               THEN ws.is_healthy ELSE ws.is_healthy,
                           !.load_ema = (99 * ws.load_ema) \div 100]]]

(***************************************************************************)
(* Actions of the load balancer and of its peers.                           *)
(***************************************************************************)
\* The LB variables while the client is studied alone.
LBAllConnected ==
    CHOOSE L \in LBInitStates : \A w \in Workers : L.worker_sessions_[w] >= 0

LBIdle ==
    /\ lb = LBAllConnected
    /\ lb_next_id = [c \in Clients |-> 0]
    /\ lb_ctx = {}
    /\ lb_resp = {}
    /\ lb_unknown = 0
    /\ lb_hist = EmptyMap
    /\ lb_last_update = 0 - 1
    /\ lb_choices = <<>>
    /\ lb_events = {}

\* The client variables while the LB is studied alone.
ClientIdle ==
    /\ cli = ClientInit
    /\ cli2 = ClientInit
    /\ cpc = "done"
    /\ loop_now = 0
    /\ wire = {}
    /\ sent_log = EmptyMap
    /\ verdict = EmptyMap
    /\ verdict2 = EmptyMap
    /\ adv_differed = FALSE

\* The worker variables while another component is studied.
WorkerIdle ==
    /\ wk = WorkerInit(0)
    /\ wk_next = 0
    /\ wk_out = {}
    /\ wk_order = [pushed |-> <<>>, sent |-> <<>>]
    /\ wk_run = EmptyMap

\* The end-to-end variables while a component is studied alone.
E2EIdle ==
    /\ ea = EmptyMap
    /\ eb = EmptyMap

\* The generator and the SPSC queue while something else is studied.
AuxIdle ==
    /\ gen = EmptyMap
    /\ spsc = EmptyMap

\* The scheduler variables while a component is studied.
EdfIdle ==
    /\ edf = EmptyMap
    /\ edf_log = EmptyMap
    /\ lk = EmptyMap
    /\ AuxIdle

SchedIdle ==
    /\ sch_in = EmptyMap
    /\ sch_out = EmptyMap
    /\ EdfIdle

\* The clock advances.
Tick ==
    /\ now < MaxTime
    /\ now' = now + 1
    /\ UNCHANGED <<clientVars, lbVars, wkVars, e2eVars, schVars>>

\* The clock advances while the load balancer is studied.
TickLB ==
    /\ now < LBMaxTime
    /\ now' = now + 1
    /\ UNCHANGED <<clientVars, lbVars, wkVars, e2eVars, schVars>>

InitLB ==
    /\ now = 0
    /\ ClientIdle
    /\ WorkerIdle
    /\ E2EIdle
    /\ SchedIdle
    /\ lb \in LBInitStates
    /\ lb_next_id = [c \in Clients |-> 0]
    /\ lb_ctx = {}
    /\ lb_resp = {}
    /\ lb_unknown = 0
    /\ lb_hist = EmptyMap
    /\ lb_last_update = 0 - 1
    /\ lb_choices = <<>>
    /\ lb_events = {}

\* A request of client c reaches the LB: ids count up from 0 in every client
\* (local_req_id of ClientContext::run), and the scheduler picks a worker.
\* Client 0 is one tick of the clock away from the LB, and its deadline is one
\* tick after the send: its requests arrive with the deadline reached.
LBClientRequest ==
    \E c \in Clients, target \in Workers :
        LET age == IF now > 0 /\ c = 0 THEN 1 ELSE 0
            id  == lb_next_id[c]
            h   == <<c, id>>
            request == [ request_id |-> id, client_send_time |-> now - age,
                         deadline |-> now - age + 1 + c, service_time_hint |-> 1 + c,
                         client_id |-> c ]
            r   == client_request_handler(lb, h, request, now, target)
        IN  /\ id < LBMaxReq
            /\ lb' = r.lb
            /\ lb_ctx' = lb_ctx \cup r.sent
            /\ lb_next_id' = [lb_next_id EXCEPT ![c] = id + 1]
            /\ lb_hist' = (h :> [ entry |-> r.lb.pending_requests_[PendingKey(request)],
                                  target |-> target,
                                  state |-> "pending",
                                  own |-> TRUE,
                                  expired |-> request.deadline <= now,
                                  forwarded |-> r.sent # {},
                                  missed |-> r.lb.deadline_misses >
                                                 lb.deadline_misses ]) @@ lb_hist
            /\ lb_events' = lb_events \cup {target}
            /\ UNCHANGED <<now, clientVars, wkVars, e2eVars, schVars, lb_resp, lb_unknown,
                          lb_last_update, lb_choices>>

\* The worker a request was forwarded to answers it (process_completions of
\* the worker fills the response) and the LB's callback runs.
LBWorkerResponse ==
    \E ctx \in lb_ctx, t7_miss \in BOOLEAN :
        LET wresp == [ request_id      |-> ctx.req.request_id,
                       worker_id       |-> ctx.req.worker_id,
                       service_time_us |-> ctx.req.service_time_hint,
                       success         |-> 1 ]
            r == worker_response_callback(lb, ctx, wresp, now, t7_miss)
            h == ctx.client_handle
        IN  /\ lb' = r.lb
            /\ lb_ctx' = lb_ctx \ {ctx}
            /\ lb_resp' = lb_resp \cup r.resp
            /\ lb_unknown' = IF r.unknown THEN lb_unknown + 1 ELSE lb_unknown
            /\ lb_hist' = [lb_hist EXCEPT ![h].state =
                                              IF r.unknown THEN "dropped" ELSE "correlated",
                                          ![h].own = (r.read = lb_hist[h].entry),
                                          ![h].entry = EmptyMap]
            /\ lb_events' = IF r.unknown THEN lb_events
                            ELSE lb_events \cup {wresp.worker_id}
            /\ UNCHANGED <<now, clientVars, wkVars, e2eVars, schVars, lb_next_id,
                          lb_last_update, lb_choices>>

\* The state thread wakes up (at most once per instant of the clock: it
\* sleeps state_update_interval_ns between two updates).
LBStateUpdate ==
    /\ lb_last_update < now
    /\ lb_last_update' = now
    /\ lb' = update_worker_states(lb, now)
    /\ lb_events' = {}
    /\ UNCHANGED <<now, clientVars, wkVars, e2eVars, schVars, lb_next_id, lb_ctx,
                   lb_resp, lb_unknown, lb_hist, lb_choices>>

NextLB == TickLB \/ LBClientRequest \/ LBWorkerResponse

SpecLB == InitLB /\ [][NextLB]_vars

\* CLAIM C11: a request that reaches the load balancer with its deadline at or
\* before the current time is dropped on arrival: it is counted as a deadline
\* miss and enqueue_request is called for no worker.
C11_ExpiredDroppedOnArrival ==
    \A h \in DOMAIN lb_hist :
        lb_hist[h].expired => (lb_hist[h].missed /\ ~lb_hist[h].forwarded)

\* The load balancer whose event loop keeps running: a response that is due
\* is eventually handled by worker_response_callback.
SpecLBFair == InitLB /\ [][NextLB]_vars /\ WF_vars(LBWorkerResponse)

\* The request handles the clients can present.
LBHandles == Clients \X (0..(LBMaxReq - 1))

\* The responses enqueued on request handle h.
ResponsesOn(h) == {m \in lb_resp : m.client_handle = h}

\* CLAIM C12: every request the load balancer accepted eventually has exactly
\* one response enqueued on its client handle, and its pending entry is
\* eventually removed.
C12_EveryRequestAnsweredOnce ==
    \A h \in LBHandles :
        (h \in DOMAIN lb_hist) ~>
            /\ Cardinality(ResponsesOn(h)) = 1
            /\ \A k \in DOMAIN lb.pending_requests_ :
                   lb.pending_requests_[k].client_handle # h

\* CLAIM C39: a request the handler cannot forward, the chosen worker having
\* no session (session < 0), leaves no trace: when the handler has returned the
\* pending table has no entry for the request, and the chosen worker's
\* queue_length and load_ema are what they were before the request arrived.
C39_UnforwardedLeavesNoTrace ==
    [][ \A h \in (DOMAIN lb_hist') \ (DOMAIN lb_hist) :
          LET target == lb_hist'[h].target
          IN  lb.worker_sessions_[target] < 0 =>
                /\ \A k \in DOMAIN lb'.pending_requests_ :
                       lb'.pending_requests_[k].client_handle # h
                /\ lb'.worker_states_[target].queue_length =
                       lb.worker_states_[target].queue_length
                /\ lb'.worker_states_[target].load_ema =
                       lb.worker_states_[target].load_ema ]_vars

(***************************************************************************)
(* Claims about the load balancer.                                          *)
(***************************************************************************)
\* C8: every request in flight at the LB has its own pending entry, also when
\* two clients use the same request_id at the same time, and a correlated
\* response reads the entry (send_time, deadline, target worker) of the
\* request it answers.
C8_OneEntryPerInflight ==
    \A h \in DOMAIN lb_hist :
        /\ lb_hist[h].state = "pending" =>
              \E k \in DOMAIN lb.pending_requests_ :
                  lb.pending_requests_[k] = lb_hist[h].entry
        /\ lb_hist[h].state = "correlated" => lb_hist[h].own

\* C9: a step that logs an unknown response leaves the pending table, every
\* worker's state, the metrics and the scheduler feedback as they were and
\* enqueues no response.
C9_UnknownDiscarded ==
    [][lb_unknown' # lb_unknown => (lb' = lb /\ lb_resp' = lb_resp)]_vars

\* An unknown response was discarded while the LB held worker load and had
\* relayed a response.
C9_Witness ==
    /\ lb_unknown > 0
    /\ lb_resp # {}
    /\ \E w \in Workers : lb.worker_states_[w].queue_length > 0

\* The requests dispatched to worker w whose response was not correlated.
Outstanding(w) ==
    {h \in DOMAIN lb_hist : lb_hist[h].target = w /\ lb_hist[h].state # "correlated"}

InitClient ==
    /\ now = 0
    /\ cli = ClientInit
    /\ cli2 = ClientInit
    /\ cpc = "top"
    /\ loop_now = 0
    /\ wire = {}
    /\ sent_log = EmptyMap
    /\ verdict = EmptyMap
    /\ verdict2 = EmptyMap
    /\ adv_differed = FALSE
    /\ LBIdle
    /\ WorkerIdle
    /\ E2EIdle
    /\ SchedIdle

\* while (running_ && now_ns() < end_time_) { Timestamp now = now_ns();
ClientLoopTop ==
    /\ cpc = "top"
    /\ IF now < MaxTime
       THEN cpc' = "events" /\ loop_now' = now
       ELSE cpc' = "done" /\ UNCHANGED loop_now
    /\ UNCHANGED <<now, cli, cli2, wire, sent_log, verdict, verdict2, adv_differed,
                   lbVars, wkVars, e2eVars, schVars>>

\* run_event_loop_once(): the response of one request in flight has arrived
\* and its callback fires.  The advisory fields of the response are whatever
\* the LB and the worker wrote, and may differ between the two executions.
ClientResponse ==
    /\ cpc = "events"
    /\ \E m \in wire, dm1 \in Bytes01, dm2 \in Bytes01 :
         LET r1 == [request_id |-> m.request_id, deadline_met |-> dm1]
             r2 == [request_id |-> m.request_id, deadline_met |-> dm2]
             c1 == response_callback(cli, m.idx, r1, now)
             c2 == response_callback(cli2, m.idx, r2, now)
             late == now > sent_log[m.request_id].deadline
         IN  /\ cli' = c1
             /\ cli2' = c2
             /\ wire' = wire \ {m}
             /\ verdict' = (m.request_id :> [j |-> Judgement(cli, c1), late |-> late])
                              @@ verdict
             /\ verdict2' = (m.request_id :> [j |-> Judgement(cli2, c2), late |-> late])
                              @@ verdict2
             /\ adv_differed' = (adv_differed \/ (~cli.in_warmup_ /\ dm1 # dm2))
    /\ UNCHANGED <<now, cpc, loop_now, sent_log, lbVars, wkVars, e2eVars, schVars>>

\* The rest of one loop iteration: the warm-up check and the send site.
ClientLoopBody ==
    /\ cpc = "events"
    /\ cpc' = "top"
    /\ LET w1 == WarmupCheck(cli, loop_now)
           w2 == WarmupCheck(cli2, loop_now)
       IN  IF SendAllowed(w1, loop_now) /\ w1.local_req_id < MaxReq
           THEN \E slack \in 1..MaxSlack :
                  LET idx == SlotOf(w1)
                      id  == w1.local_req_id
                  IN  /\ cli' = SendSite(w1, loop_now, now, slack)
                      /\ cli2' = SendSite(w2, loop_now, now, slack)
                      /\ wire' = wire \cup {[request_id |-> id, idx |-> idx]}
                      /\ sent_log' = (id :> [idx |-> idx,
                                            deadline |-> generate(now, slack).deadline,
                                            busy |-> \E m \in wire : m.idx = idx,
                                            inflight_before |-> w1.inflight_requests_,
                                            at |-> loop_now,
                                            due |-> w1.next_send,
                                            next_after |-> cli'.next_send])
                                        @@ sent_log
           ELSE /\ cli' = w1
                /\ cli2' = w2
                /\ UNCHANGED <<wire, sent_log>>
    /\ UNCHANGED <<now, loop_now, verdict, verdict2, adv_differed, lbVars, wkVars, e2eVars, schVars>>

NextClient == Tick \/ ClientLoopTop \/ ClientResponse \/ ClientLoopBody

SpecClient == InitClient /\ [][NextClient]_vars

(***************************************************************************)
(* Claims about the client.                                                 *)
(***************************************************************************)
\* C1: every request judged outside warm-up is recorded as a deadline miss if
\* and only if its response was received after the deadline generated for
\* that very request at send time.
C1_JudgedAgainstOwnDeadline ==
    \A r \in DOMAIN verdict :
        verdict[r].j # "warmup" => (verdict[r].j = "miss" <=> verdict[r].late)

\* C2: no two requests awaiting their response hold the same slot, and the
\* send site never picked a slot that a request in flight still held.
C2_OneRequestPerSlot ==
    /\ \A m1 \in wire, m2 \in wire : m1.idx = m2.idx => m1 = m2
    /\ \A r \in DOMAIN sent_log : ~sent_log[r].busy

\* C3: two executions fed the same sends and the same responses at the same
\* times, differing only in the advisory deadline_met byte of the responses,
\* judge every request alike and count the same deadline misses.
C3_AdvisoryIgnored ==
    /\ \A r \in DOMAIN verdict : verdict[r].j = verdict2[r].j
    /\ cli.deadline_misses = cli2.deadline_misses

\* Responses that differed in the advisory byte were judged outside warm-up,
\* and one of them was a miss.
C3_Witness ==
    /\ adv_differed
    /\ cli.deadline_misses > 0
    /\ \E r \in DOMAIN verdict : verdict[r].j = "hit"

\* C5: the requests in flight never exceed kMaxInflight nor the buffer pool;
\* the counter is the number of sends minus the number of callbacks, and no
\* request was sent from an iteration that found the limit reached.
C5_InflightBounded ==
    /\ cli.inflight_requests_ <= kMaxInflight
    /\ cli.inflight_requests_ <= buf_pool_size
    /\ cli.inflight_requests_ = cli.sent_requests_ - cli.completed_requests_
    /\ cli.inflight_requests_ = Cardinality(wire)
    /\ \A r \in DOMAIN sent_log : sent_log[r].inflight_before < kMaxInflight

\* The limit is reached in an iteration that is due to send, after an earlier
\* response had released a slot.
C5_Witness ==
    /\ cpc = "events"
    /\ cli.inflight_requests_ = kMaxInflight
    /\ loop_now >= cli.next_send
    /\ cli.completed_requests_ > 0

\* The client with its main loop and the clock never stopping for ever; no
\* response is bound to arrive.
SpecClientFair ==
    /\ InitClient
    /\ [][NextClient]_vars
    /\ WF_vars(Tick)
    /\ WF_vars(ClientLoopTop)
    /\ WF_vars(ClientLoopBody)

\* Request id holds no slot any more: its callback has run, or its slot was
\* released otherwise (inflight_requests_ is the number of slots held).
Settled(id) == \A m \in wire : m.request_id # id

\* CLAIM C30: every request the client sent is eventually settled, and once
\* only: by its response callback or, without a response, by the release of
\* its slot as a deadline miss; when the client has finished no request it
\* sent is still unaccounted for.
C30_EverySentRequestSettled ==
    /\ \A id \in ReqIds : (id \in DOMAIN sent_log) ~> Settled(id)
    /\ [](cpc = "done" =>
             /\ \A id \in DOMAIN sent_log : Settled(id)
             /\ cli.inflight_requests_ = 0)
    /\ [](cli.sent_requests_ = cli.completed_requests_ + Cardinality(wire))

\* CLAIM C27: the pacing never backfills missed send slots: after every send
\* next_send is at least the loop's sampled current time, so however long the
\* loop was stalled at most two requests are sent without a full interval
\* between them: the second send after any send is at least one interval
\* (of the loop's sampled time) later.
C27_NoBackfill ==
    /\ \A id \in DOMAIN sent_log : sent_log[id].next_after >= sent_log[id].at
    /\ \A id \in DOMAIN sent_log :
           (id + 2) \in DOMAIN sent_log
               => sent_log[id + 2].at >= sent_log[id].at + interval_ns

\* After a stall of at least two whole intervals past next_send, two requests
\* were sent less than an interval apart and a third one was sent later.
C27_Witness ==
    \E id \in DOMAIN sent_log :
        /\ sent_log[id].at >= sent_log[id].due + 2 * interval_ns
        /\ (id + 1) \in DOMAIN sent_log
        /\ sent_log[id + 1].at - sent_log[id].at < interval_ns
        /\ (id + 2) \in DOMAIN sent_log

(***************************************************************************)
(* Actions of the split worker.                                             *)
(***************************************************************************)
InitWorker ==
    /\ now = 0
    /\ ClientIdle
    /\ LBIdle
    /\ E2EIdle
    /\ SchedIdle
    /\ wk \in {WorkerInit(skew) : skew \in {0, MaxSkew}}
    /\ wk_next = 0
    /\ wk_out = {}
    /\ wk_order = [pushed |-> <<>>, sent |-> <<>>]
    /\ wk_run = EmptyMap

\* History: the ids a step of the worker from W to W2 pushed into
\* completion_queue_, and those it called enqueue_response for (they are the
\* requests whose stage_log grew by that stage).
StageEntered(W, W2, stage) ==
    {id \in DOMAIN W2.stage_log :
        /\ W2.stage_log[id][Len(W2.stage_log[id])] = stage
        /\ (id \notin DOMAIN W.stage_log
               \/ Len(W.stage_log[id]) < Len(W2.stage_log[id]))}

AsSeq(S) == IF S = {} THEN <<>> ELSE <<CHOOSE id \in S : TRUE>>

PushedIds(W, W2) == AsSeq(StageEntered(W, W2, "completion_queue_"))

RespondedIds(W, W2) == AsSeq(StageEntered(W, W2, "enqueue_response"))

\* The clock advances while the worker is studied.
TickWorker ==
    /\ now < WkMaxTime
    /\ now' = now + 1
    /\ UNCHANGED <<clientVars, lbVars, wkVars, e2eVars, schVars>>

\* One iteration of start()'s loop, first half: run_event_loop_once() on the
\* I/O thread, which runs request_handler if a request of the LB has arrived.
WorkerEventLoop ==
    /\ wk.io_pc = "event_loop"
    /\ \E arrived \in BOOLEAN :
         LET request == [ request_id |-> wk_next, deadline |-> now + 1,
                          service_time_hint |-> 1 ]
             delivered == IF arrived THEN << <<wk_next, request>> >> ELSE <<>>
         IN  /\ arrived => wk_next < WkMaxReq
             /\ wk' = process_completions_begin(
                          run_event_loop_once(wk, IOThread, delivered, now))
             /\ wk_next' = IF arrived THEN wk_next + 1 ELSE wk_next
    /\ UNCHANGED <<now, clientVars, lbVars, e2eVars, schVars, wk_out, wk_order, wk_run>>

\* Second half: process_completions() on the I/O thread, one pass of its loop.
WorkerCompletions ==
    /\ wk.io_pc = "completions"
    /\ LET r == process_completions_step(wk, IOThread)
       IN  /\ wk' = r.wk
           /\ wk_out' = wk_out \cup r.resp
           /\ wk_order' = [wk_order EXCEPT !.sent = @ \o RespondedIds(wk, r.wk)]
    /\ UNCHANGED <<now, clientVars, lbVars, e2eVars, schVars, wk_next, wk_run>>

\* Compute thread th enters process_tasks and pops a task.
WorkerComputePop ==
    \E th \in ComputeThreads :
        /\ wk.held[th] = <<>>
        /\ wk.task_queue_ # <<>>
        /\ wk' = process_tasks_pop(wk, th, now)
        /\ UNCHANGED <<now, clientVars, lbVars, e2eVars, schVars, wk_next, wk_out,
                       wk_order, wk_run>>

\* Compute thread th leaves the simulated work and finishes process_tasks.
WorkerComputeFinish ==
    \E th \in ComputeThreads :
        /\ wk.held[th] # <<>>
        /\ SimulatorDone(wk, th, now)
        /\ LET r == process_tasks_finish(wk, th, now)
           IN  /\ wk' = r.wk
               /\ wk_out' = wk_out \cup r.resp
               /\ wk_order' = [wk_order EXCEPT
                                  !.pushed = @ \o PushedIds(wk, r.wk),
                                  !.sent = @ \o RespondedIds(wk, r.wk)]
        /\ UNCHANGED <<now, clientVars, lbVars, e2eVars, schVars, wk_next, wk_run>>

NextWorker ==
    \/ TickWorker
    \/ WorkerEventLoop
    \/ WorkerCompletions
    \/ WorkerComputePop
    \/ WorkerComputeFinish

SpecWorker == InitWorker /\ [][NextWorker]_vars

(***************************************************************************)
(* Claims about the split worker.                                           *)
(***************************************************************************)
\* C6: every invocation of an RPC primitive (run_event_loop_once,
\* resize_msg_buffer, enqueue_response) is made by the I/O thread, never by a
\* compute thread.
C6_RpcOnlyOnIOThread ==
    \A e \in wk.rpc_log : e.thread = IOThread /\ e.thread \notin ComputeThreads

\* The I/O thread has used all three primitives after compute threads
\* finished tasks, while a compute thread is inside process_tasks.
C6_Witness ==
    /\ {e.primitive : e \in wk.rpc_log} =
           {"run_event_loop_once", "resize_msg_buffer", "enqueue_response"}
    /\ wk.completed_requests_ > 0
    /\ \E th \in ComputeThreads : wk.held[th] # <<>>

\* Whether sequence s is a prefix of sequence t.
IsPrefix(s, t) == Len(s) <= Len(t) /\ \A i \in 1..Len(s) : s[i] = t[i]

\* C7: the stages every received request has gone through are an initial
\* part of receive, task_queue_, compute, completion_queue_, enqueue_response
\* (in this order, each at most once); a request is held by at most one compute
\* thread and answered at most once.
C7_StagesInOrderOnce ==
    /\ \A id \in DOMAIN wk.stage_log : IsPrefix(wk.stage_log[id], Stages)
    /\ \A t1 \in ComputeThreads, t2 \in ComputeThreads :
           (t1 # t2 /\ wk.held[t1] # <<>> /\ wk.held[t2] # <<>>)
               => wk.held[t1][1].request_id # wk.held[t2][1].request_id
    /\ \A id \in DOMAIN wk.stage_log :
           Cardinality({o \in wk_out : o.resp.request_id = id}) <= 1

\* One request has gone through all five stages while the two compute threads
\* raced for the queue and another request is still being computed.
C7_Witness ==
    /\ \E id \in DOMAIN wk.stage_log : wk.stage_log[id] = Stages
    /\ \E id \in DOMAIN wk.stage_log : Len(wk.stage_log[id]) = 3
    /\ \E th \in ComputeThreads : wk.held[th] # <<>>

\* CLAIM C25: responses are sent in the FIFO order of completion_queue_: the
\* requests enqueue_response was called for are, in that order, an initial
\* part of the requests in the order the compute threads pushed them, under
\* every interleaving and across the batches of process_completions.
C25_ResponsesInCompletionOrder == IsPrefix(wk_order.sent, wk_order.pushed)

\* Two responses were sent, for requests the compute threads had finished in
\* the reverse of their arrival order.
C25_Witness ==
    /\ Len(wk_order.sent) >= 2
    /\ wk_order.sent[1] > wk_order.sent[2]

(***************************************************************************)
(* End to end: one client, the LB and the split worker, run twice on the    *)
(* same events; execution B reads the worker's clock with a constant        *)
(* offset.  A step of the pair performs the event in every execution in     *)
(* which it can happen.                                                     *)
(***************************************************************************)
WorldInit(skew) ==
    [ cli      |-> ClientInit,
      cpc      |-> "top",
      loop_now |-> 0,
      c2l      |-> {},        \* requests the client enqueued for the LB
      lb       |-> LBAllConnected,
      l2w      |-> {},        \* LBRequestContexts enqueued for the worker
      wk       |-> WorkerInit(skew),
      w2l      |-> {},        \* responses the worker enqueued for the LB
      l2c      |-> {},        \* responses the LB enqueued for the client
      verdict  |-> EmptyMap ] \* history: request_id -> the client's judgement

\* The client's loop head.
CanLoopTop(w) == w.cpc = "top"
DoLoopTop(w, t) ==
    IF t < E2EMaxTime THEN [w EXCEPT !.cpc = "events", !.loop_now = t]
    ELSE [w EXCEPT !.cpc = "done"]

\* The client's warm-up check and send site.
CanLoopBody(w) == w.cpc = "events"
DoLoopBody(w, t, slack) ==
    LET c1 == WarmupCheck(w.cli, w.loop_now)
        creq == [ request_id |-> c1.local_req_id, idx |-> SlotOf(c1),
                  client_send_time |-> t,
                  deadline |-> generate(t, slack).deadline,
                  service_time_hint |-> 1, client_id |-> 0 ]
    IN  IF SendAllowed(c1, w.loop_now) /\ c1.local_req_id < E2EMaxReq
        THEN [w EXCEPT !.cpc = "top",
                       !.cli = SendSite(c1, w.loop_now, t, slack),
                       !.c2l = @ \cup {creq}]
        ELSE [w EXCEPT !.cpc = "top", !.cli = c1]

\* The LB's handler for the client's request id; the scheduler picks the
\* worker under study.
CanLBRequest(w, id) == \E m \in w.c2l : m.request_id = id
DoLBRequest(w, t, id) ==
    LET m == CHOOSE x \in w.c2l : x.request_id = id
        r == client_request_handler(w.lb, <<m.idx, id>>, m, t, worker_id)
    IN  [w EXCEPT !.lb = r.lb, !.c2l = @ \ {m}, !.l2w = @ \cup r.sent]

\* The worker's I/O thread: run_event_loop_once, which delivers request id if
\* it has arrived, then the start of process_completions.
CanWorkerEventLoop(w) == w.wk.io_pc = "event_loop"
DoWorkerEventLoop(w, t, id) ==
    LET arrived == {ctx \in w.l2w : ctx.req.request_id = id}
        delivered == IF arrived = {} THEN <<>>
                     ELSE LET ctx == CHOOSE x \in arrived : TRUE
                          IN  << <<ctx, ctx.req>> >>
    IN  [w EXCEPT !.wk = process_completions_begin(
                             run_event_loop_once(@, IOThread, delivered, t)),
                  !.l2w = @ \ arrived]

\* The worker's I/O thread: one pass of process_completions' loop.
CanWorkerCompletions(w) == w.wk.io_pc = "completions"
DoWorkerCompletions(w) ==
    LET r == process_completions_step(w.wk, IOThread)
    IN  [w EXCEPT !.wk = r.wk, !.w2l = @ \cup r.resp]

\* A compute thread of the worker pops a task.
CanComputePop(w, th) == w.wk.held[th] = <<>> /\ w.wk.task_queue_ # <<>>
DoComputePop(w, t, th) == [w EXCEPT !.wk = process_tasks_pop(@, th, t)]

\* A compute thread of the worker finishes a task.
CanComputeFinish(w, t, th) == w.wk.held[th] # <<>> /\ SimulatorDone(w.wk, th, t)
DoComputeFinish(w, t, th) ==
    LET r == process_tasks_finish(w.wk, th, t)
    IN  [w EXCEPT !.wk = r.wk, !.w2l = @ \cup r.resp]

\* The LB's callback for the worker's response to request id.
CanLBResponse(w, id) == \E o \in w.w2l : o.resp.request_id = id
DoLBResponse(w, t, id, t7_miss) ==
    LET o == CHOOSE x \in w.w2l : x.resp.request_id = id
        r == worker_response_callback(w.lb, o.req_handle, o.resp, t, t7_miss)
    IN  [w EXCEPT !.lb = r.lb, !.w2l = @ \ {o}, !.l2c = @ \cup r.resp]

\* The client's callback for the response to request id.
CanClientResponse(w, id) ==
    w.cpc = "events" /\ \E m \in w.l2c : m.resp.request_id = id
DoClientResponse(w, t, id) ==
    LET m == CHOOSE x \in w.l2c : x.resp.request_id = id
        c1 == response_callback(w.cli, m.client_handle[1], m.resp, t)
    IN  [w EXCEPT !.cli = c1, !.l2c = @ \ {m},
                  !.verdict = (id :> Judgement(w.cli, c1)) @@ @]

\* The event happens in every execution of the pair in which it can: can_a
\* and can_b tell whether it can in A and in B, next_a and next_b are the
\* executions after it.
Pair(can_a, can_b, next_a, next_b) ==
    /\ can_a \/ can_b
    /\ ea' = IF can_a THEN next_a ELSE ea
    /\ eb' = IF can_b THEN next_b ELSE eb
    /\ UNCHANGED <<now, clientVars, lbVars, wkVars, schVars>>

InitE2E ==
    /\ now = 0
    /\ ClientIdle
    /\ LBIdle
    /\ WorkerIdle
    /\ SchedIdle
    /\ ea = WorldInit(0)
    /\ eb \in {WorldInit(skew) : skew \in ((0 - MaxSkew)..MaxSkew) \ {0}}

E2ETick ==
    /\ now < E2EMaxTime
    /\ now' = now + 1
    /\ UNCHANGED <<clientVars, lbVars, wkVars, e2eVars, schVars>>

E2ELoopTop ==
    Pair(CanLoopTop(ea), CanLoopTop(eb), DoLoopTop(ea, now), DoLoopTop(eb, now))

E2ELoopBody ==
    \E slack \in 1..MaxSlack :
        Pair(CanLoopBody(ea), CanLoopBody(eb),
             DoLoopBody(ea, now, slack), DoLoopBody(eb, now, slack))

E2ELBRequest ==
    \E id \in 0..(E2EMaxReq - 1) :
        Pair(CanLBRequest(ea, id), CanLBRequest(eb, id),
             DoLBRequest(ea, now, id), DoLBRequest(eb, now, id))

E2EWorkerEventLoop ==
    \E id \in (0 - 1)..(E2EMaxReq - 1) :
        Pair(CanWorkerEventLoop(ea), CanWorkerEventLoop(eb),
             DoWorkerEventLoop(ea, now, id), DoWorkerEventLoop(eb, now, id))

E2EWorkerCompletions ==
    Pair(CanWorkerCompletions(ea), CanWorkerCompletions(eb),
         DoWorkerCompletions(ea), DoWorkerCompletions(eb))

E2EComputePop ==
    \E th \in ComputeThreads :
        Pair(CanComputePop(ea, th), CanComputePop(eb, th),
             DoComputePop(ea, now, th), DoComputePop(eb, now, th))

E2EComputeFinish ==
    \E th \in ComputeThreads :
        Pair(CanComputeFinish(ea, now, th), CanComputeFinish(eb, now, th),
             DoComputeFinish(ea, now, th), DoComputeFinish(eb, now, th))

\* The value read from the trace's uninitialised t7_client_recv is arbitrary
\* in each execution.
E2ELBResponse ==
    \E id \in 0..(E2EMaxReq - 1), t7a \in BOOLEAN, t7b \in BOOLEAN :
        Pair(CanLBResponse(ea, id), CanLBResponse(eb, id),
             DoLBResponse(ea, now, id, t7a), DoLBResponse(eb, now, id, t7b))

E2EClientResponse ==
    \E id \in 0..(E2EMaxReq - 1) :
        Pair(CanClientResponse(ea, id), CanClientResponse(eb, id),
             DoClientResponse(ea, now, id), DoClientResponse(eb, now, id))

NextE2E ==
    \/ E2ETick
    \/ E2ELoopTop
    \/ E2ELoopBody
    \/ E2ELBRequest
    \/ E2EWorkerEventLoop
    \/ E2EWorkerCompletions
    \/ E2EComputePop
    \/ E2EComputeFinish
    \/ E2ELBResponse
    \/ E2EClientResponse

SpecE2E == InitE2E /\ [][NextE2E]_vars

(***************************************************************************)
(* Claims about the end-to-end pair.                                        *)
(***************************************************************************)
\* C4: two end-to-end executions on the same events that differ only by a
\* constant offset of the worker's clock judge every request alike at the
\* client and count the same client-side requests and deadline misses.
C4_WorkerSkewNoInfluence ==
    /\ ea.verdict = eb.verdict
    /\ ea.cli.deadline_misses = eb.cli.deadline_misses
    /\ ea.cli.total_requests = eb.cli.total_requests

\* The client recorded a miss and a hit outside warm-up, and the skew made the
\* worker's own view of the deadlines differ between the two executions.
C4_Witness ==
    /\ \E r \in DOMAIN ea.verdict : ea.verdict[r] = "miss"
    /\ \E r \in DOMAIN ea.verdict : ea.verdict[r] = "hit"
    /\ ea.wk.deadline_misses # eb.wk.deadline_misses

(***************************************************************************)
(* The schedulers as functions: one schedule() call of each policy on a     *)
(* worker-state vector, RNG draws and a request drawn from bounded sets.    *)
(***************************************************************************)
SchedWorkers == 0..(NumSchedWorkers - 1)

\* load_ema values (thousandths) a worker reaches after 0, 1 and 2 dispatches.
LoadLevels == {0, 100, 290}

\* The worker states handed to schedule().
SchedWorkerStates ==
    [ queue_length : {0, 1}, load_ema : LoadLevels, avg_service_time : {0},
      is_healthy : BOOLEAN, p99_latency : {0}, capacity_factor : {CapacityUnit},
      slack_histogram : {[b \in 0..3 |-> 0]}, last_heartbeat : {0} ]

InitSched ==
    /\ now = 0
    /\ ClientIdle
    /\ LBIdle
    /\ WorkerIdle
    /\ E2EIdle
    /\ sch_in \in [ states : [SchedWorkers -> SchedWorkerStates],
                    draws : [1..num_choices_ -> SchedWorkers],
                    to_deadline : {0 - 1, us_to_ns(200)} ]
    /\ sch_out = [done |-> FALSE]
    /\ EdfIdle

\* The LB calls schedule() of each policy on the same inputs.
SchedCall ==
    /\ ~sch_out.done
    /\ sch_out' =
         [ done |-> TRUE,
           candidates |-> Po2Sample(sch_in.draws, 1, <<>>),
           po2 |-> Po2Schedule(sch_in.draws, sch_in.states),
           malcolm |-> malcolm_schedule_heuristic(sch_in.states),
           strict |-> strict_schedule_heuristic(sch_in.states, sch_in.to_deadline) ]
    /\ UNCHANGED <<now, clientVars, lbVars, wkVars, e2eVars, sch_in, edf, edf_log, lk, auxVars>>

NextSched == SchedCall

SpecSched == InitSched /\ [][NextSched]_vars

(***************************************************************************)
(* Claims about the schedulers.                                             *)
(***************************************************************************)
\* The healthy workers of the vector, and the candidates Po2 compared.
HealthyWorkers == {w \in SchedWorkers : sch_in.states[w].is_healthy}
Sampled == {sch_out.candidates[k] : k \in 1..Len(sch_out.candidates)}
SampledHealthy == Sampled \cap HealthyWorkers
LoadOf(w) == sch_in.states[w].load_ema

\* The lowest index of a non-empty set of workers.
LowestIndex(S) == CHOOSE w \in S : \A v \in S : w <= v

\* C14: when exactly one worker of the vector is healthy, Po2, the Malcolm
\* heuristic and the Malcolm-Strict heuristic all return that worker.
C14_OnlyHealthyWorkerChosen ==
    (sch_out.done /\ Cardinality(HealthyWorkers) = 1) =>
        /\ sch_out.po2 \in HealthyWorkers
        /\ sch_out.malcolm \in HealthyWorkers
        /\ sch_out.strict \in HealthyWorkers

\* C15: when every sampled candidate is healthy, Po2 returns a sampled worker
\* whose load_ema is at most that of every sampled candidate.
C15_Po2ArgminOverSample ==
    (sch_out.done /\ Sampled \subseteq HealthyWorkers) =>
        /\ sch_out.po2 \in Sampled
        /\ \A c \in Sampled : LoadOf(sch_out.po2) <= LoadOf(c)

\* Two distinct healthy workers were sampled and the second one, with the
\* strictly lower load, was returned.
C15_Witness ==
    /\ sch_out.done
    /\ Sampled \subseteq HealthyWorkers
    /\ Cardinality(Sampled) = num_choices_
    /\ sch_out.po2 = sch_out.candidates[2]
    /\ LoadOf(sch_out.candidates[2]) < LoadOf(sch_out.candidates[1])

\* C16: with at least num_choices_ workers, the candidates Po2 compares are
\* pairwise distinct.
C16_Po2CandidatesDistinct ==
    (sch_out.done /\ NumSchedWorkers >= num_choices_) =>
        \A j \in 1..Len(sch_out.candidates), k \in 1..Len(sch_out.candidates) :
            j # k => sch_out.candidates[j] # sch_out.candidates[k]

\* C17: when at least one sampled candidate is healthy, the worker Po2
\* returns is healthy.
C17_Po2SkipsUnhealthy ==
    (sch_out.done /\ SampledHealthy # {}) => sch_out.po2 \in HealthyWorkers

\* The sampled healthy candidates with the lowest load_ema among them.
SampledLowest ==
    {c \in SampledHealthy : \A d \in SampledHealthy : LoadOf(c) <= LoadOf(d)}

\* C18: when two or more sampled healthy candidates share the lowest
\* load_ema, Po2 returns the one with the lowest index.
C18_Po2TieLowestIndex ==
    (sch_out.done /\ Cardinality(SampledLowest) >= 2) =>
        sch_out.po2 = LowestIndex(SampledLowest)

\* The healthy workers with the smallest delta, and with the smallest load.
MinDeltaWorkers ==
    {w \in HealthyWorkers : \A v \in HealthyWorkers :
        MalcolmDelta(sch_in.states, w) <= MalcolmDelta(sch_in.states, v)}
MinLoadWorkers ==
    {w \in HealthyWorkers : \A v \in HealthyWorkers : LoadOf(w) <= LoadOf(v)}

StrictWorkers == {0, 1}

StrictWorkerStates ==
    [ queue_length : {0, 1}, load_ema : {0}, avg_service_time : {0, us_to_ns(150)},
      is_healthy : BOOLEAN, p99_latency : {0, 2000},
      capacity_factor : {CapacityUnit \div 2, CapacityUnit},
      slack_histogram : {[b \in 0..3 |-> 0], [b \in 0..3 |-> IF b = 3 THEN 1 ELSE 0]},
      last_heartbeat : {0} ]

InitStrict ==
    /\ now = 0
    /\ ClientIdle
    /\ LBIdle
    /\ WorkerIdle
    /\ E2EIdle
    /\ sch_in \in [ states : [StrictWorkers -> StrictWorkerStates],
                    draws : {[k \in 1..num_choices_ |-> 0]},
                    to_deadline : {0 - 1, us_to_ns(200)} ]
    /\ sch_out = [done |-> FALSE]
    /\ EdfIdle

SpecStrict == InitStrict /\ [][NextSched]_vars

\* The risk the claim gives, times us_to_ns(100) and CapacityUnit: the
\* urgent term is inside the capacity scaling.
ClaimedRisk(ws, to_deadline) ==
    LET width == us_to_ns(100)
        urgent == ws.slack_histogram[0] + ws.slack_histogram[1]
                    + ws.slack_histogram[2] + ws.slack_histogram[3]
        slack == to_deadline - ws.avg_service_time * (1 + ws.queue_length)
        penalty == IF slack < 0 THEN 1000000 * width
                   ELSE IF slack < width THEN 10000 * (width - slack)
                   ELSE 0
    IN  (ws.queue_length * 100 * width + (ws.p99_latency * width) \div 1000
            + urgent * 500 * width) * (2 * CapacityUnit - ws.capacity_factor)
          + CapacityUnit * penalty

StrictHealthy == {w \in StrictWorkers : sch_in.states[w].is_healthy}

\* CLAIM C36: without a model, MalcolmStrictScheduler returns the
\* lowest-indexed healthy worker minimising
\* (100 * queue_len + p99 / 1000 + 500 * urgent) * (2 - capacity) + penalty;
\* between two healthy workers equal in everything but capacity_factor the
\* one of higher capacity is chosen whenever a risk term is non-zero (here:
\* one of the three terms that the claim scales by capacity).
C36_StrictMinimisesRisk ==
    (sch_out.done /\ StrictHealthy # {}) =>
        /\ sch_out.strict = LowestIndex(
               {w \in StrictHealthy : \A v \in StrictHealthy :
                   ClaimedRisk(sch_in.states[w], sch_in.to_deadline)
                       <= ClaimedRisk(sch_in.states[v], sch_in.to_deadline)})
        /\ \A w, v \in StrictHealthy :
               (/\ [sch_in.states[w] EXCEPT !.capacity_factor = 0]
                      = [sch_in.states[v] EXCEPT !.capacity_factor = 0]
                /\ sch_in.states[w].capacity_factor > sch_in.states[v].capacity_factor
                /\ ClaimedRisk(sch_in.states[w], us_to_ns(200)) > 0)
                   => sch_out.strict = w

(***************************************************************************)
(* The load balancer dispatching through its scheduler: SpecLBDispatch has  *)
(* the request handler alone, SpecLBHealth adds the state thread.           *)
(***************************************************************************)
InitLBDispatch ==
    /\ now = 0
    /\ ClientIdle
    /\ WorkerIdle
    /\ E2EIdle
    /\ SchedIdle
    /\ lb \in LBInitStatesOver(SchedWorkers)
    /\ lb_next_id = [c \in Clients |-> 0]
    /\ lb_ctx = {}
    /\ lb_resp = {}
    /\ lb_unknown = 0
    /\ lb_hist = EmptyMap
    /\ lb_last_update = 0 - 1
    /\ lb_choices = <<>>
    /\ lb_events = {}

\* A request of client c reaches the LB, whose scheduler_ is the
\* MalcolmScheduler with use_heuristic_ set.
LBScheduledRequest ==
    \E c \in Clients :
        LET target == malcolm_schedule_heuristic(lb.worker_states_)
            age == IF now > 0 /\ c = 0 THEN 1 ELSE 0
            id  == lb_next_id[c]
            h   == <<c, id>>
            request == [ request_id |-> id, client_send_time |-> now - age,
                         deadline |-> now - age + 1 + c, service_time_hint |-> 1 + c,
                         client_id |-> c ]
            r   == client_request_handler(lb, h, request, now, target)
        IN  /\ Len(lb_choices) < MaxDispatch
            /\ lb' = r.lb
            /\ lb_ctx' = lb_ctx \cup r.sent
            /\ lb_next_id' = [lb_next_id EXCEPT ![c] = id + 1]
            /\ lb_choices' = Append(lb_choices, target)
            /\ lb_events' = lb_events \cup {target}
            /\ UNCHANGED <<now, clientVars, wkVars, e2eVars, schVars, lb_resp, lb_unknown,
                           lb_hist, lb_last_update>>

NextLBDispatch == TickLB \/ LBScheduledRequest

SpecLBDispatch == InitLBDispatch /\ [][NextLBDispatch]_vars

NextLBHealth == TickLB \/ LBScheduledRequest \/ LBStateUpdate

SpecLBHealth == InitLBDispatch /\ [][NextLBHealth]_vars

\* CLAIM C13: a worker from which the load balancer has had no heartbeat or
\* response for longer than the unhealthy timeout is marked is_healthy = FALSE
\* by a state-update tick (after which the scheduler does not select it): once
\* update_worker_states has run at an instant more than the timeout after the
\* worker's last_heartbeat, the worker is not healthy.
C13_StaleWorkerMarkedUnhealthy ==
    \A w \in DOMAIN lb.worker_states_ :
        lb_last_update - lb.worker_states_[w].last_heartbeat > unhealthy_timeout
            => ~lb.worker_states_[w].is_healthy

\* CLAIM C29: a state-update tick decays the load_ema of a worker only if no
\* request was dispatched to it and no response came from it since the
\* previous tick: a worker with such an event keeps the load_ema that
\* update_load_ema gave it, and a worker without one has a load_ema that does
\* not increase and is never negative.
C29_DecayOnlyWithoutEvents ==
    [][lb_last_update' # lb_last_update =>
          \A w \in DOMAIN lb.worker_states_ :
              LET before == lb.worker_states_[w].load_ema
                  after  == lb'.worker_states_[w].load_ema
              IN  IF w \in lb_events THEN after = before
                  ELSE after <= before /\ after >= 0]_vars

Implementations == {"kLocked", "kTimingWheel"}

\* Deadlines of the tasks pushed: around the clock's instants, one wheel
\* revolution away, and in three different bins of the histogram.
EdfDeadlines ==
    { 0, kBucketWidthNs,
      (kNumBuckets - 1) * kBucketWidthNs, (kNumBuckets + 1) * kBucketWidthNs,
      kSlackBinWidth + 1, 40 * kSlackBinWidth }

EdfLogInit ==
    [ op |-> "none", ok |-> TRUE, task |-> EmptyMap, hist |-> EmptyMap, at |-> 0,
      size_before |-> 0, run |-> <<>>, pushed |-> 0, expired |-> <<>> ]

InitEDF ==
    /\ now = 0
    /\ ClientIdle
    /\ LBIdle
    /\ WorkerIdle
    /\ E2EIdle
    /\ sch_in = EmptyMap
    /\ sch_out = EmptyMap
    /\ edf \in {EDFQueueInit(impl) : impl \in Implementations}
    /\ edf_log = EdfLogInit
    /\ lk = EmptyMap
    /\ AuxIdle

EDFTick ==
    /\ now < EdfMaxTime
    /\ now' = now + 1
    /\ UNCHANGED <<clientVars, lbVars, wkVars, e2eVars, schVars>>

\* A task is pushed; run, the deadlines popped since the last push, restarts.
EDFPush ==
    \E d \in EdfDeadlines :
        LET task == [request_id |-> edf_log.pushed, deadline |-> d]
        IN  /\ edf_log.pushed < EdfMaxTasks
            /\ edf' = edf_push(edf, task)
            /\ edf_log' = [ op |-> "push", ok |-> TRUE, task |-> task,
                            hist |-> EmptyMap, at |-> now,
                            size_before |-> edf_size(edf), run |-> <<>>,
                            pushed |-> edf_log.pushed + 1, expired |-> <<>> ]
            /\ UNCHANGED <<now, clientVars, lbVars, wkVars, e2eVars, sch_in, sch_out, lk, auxVars>>

\* try_pop; the timing wheel reads the clock.
EDFTryPop ==
    LET r == edf_try_pop(edf, now)
    IN  /\ edf' = r.q
        /\ edf_log' = [ op |-> "pop", ok |-> r.ok, task |-> r.task,
                        hist |-> EmptyMap, at |-> now,
                        size_before |-> edf_size(edf),
                        run |-> IF r.ok THEN Append(edf_log.run, r.task.deadline)
                                ELSE edf_log.run,
                        pushed |-> edf_log.pushed, expired |-> <<>> ]
        /\ UNCHANGED <<now, clientVars, lbVars, wkVars, e2eVars, sch_in, sch_out, lk, auxVars>>

\* get_slack_histogram at a quiescent instant.
EDFHistogram ==
    /\ edf_log' = [ op |-> "hist", ok |-> TRUE, task |-> EmptyMap,
                    hist |-> edf_get_slack_histogram(edf, now), at |-> now,
                    size_before |-> edf_size(edf), run |-> edf_log.run,
                    pushed |-> edf_log.pushed, expired |-> <<>> ]
    /\ UNCHANGED <<now, clientVars, lbVars, wkVars, e2eVars, sch_in, sch_out, edf, lk, auxVars>>

\* get_expired on the locked heap.
EDFGetExpired ==
    /\ edf.impl_ = "kLocked"
    /\ LET r == locked_get_expired(edf.locked_queue_, now, <<>>)
       IN  /\ edf' = [edf EXCEPT !.locked_queue_ = r.heap]
           /\ edf_log' = [ op |-> "expired", ok |-> TRUE, task |-> EmptyMap,
                           hist |-> EmptyMap, at |-> now,
                           size_before |-> edf_size(edf),
                           run |-> edf_log.run
                                     \o [i \in DOMAIN r.expired |-> r.expired[i].deadline],
                           pushed |-> edf_log.pushed, expired |-> r.expired ]
    /\ UNCHANGED <<now, clientVars, lbVars, wkVars, e2eVars, sch_in, sch_out, lk, auxVars>>

NextEDF == EDFTick \/ EDFPush \/ EDFTryPop \/ EDFHistogram \/ EDFGetExpired

SpecEDF == InitEDF /\ [][NextEDF]_vars

\* The tasks of a sequence, and the tasks queued in q.
TasksOf(tasks) == {tasks[i] : i \in DOMAIN tasks}

QueuedTasks(q) ==
    IF q.impl_ = "kLocked" THEN TasksOf(q.locked_queue_)
    ELSE UNION {TasksOf(q.timing_wheel_.buckets_[b]) : b \in WheelBuckets}

RECURSIVE SumBins(_, _)
SumBins(hist, bin) == IF bin < 0 THEN 0 ELSE hist[bin] + SumBins(hist, bin - 1)

\* CLAIM C21: for EDFQueueLocked, a successful try_pop returns a task whose
\* deadline is at most the deadline of every task still queued; the
\* deadlines popped with no push in between are non-decreasing; and try_pop
\* returns false exactly when the queue is empty.
C21_LockedPopsEarliest ==
    edf.impl_ = "kLocked" =>
        /\ edf_log.op = "pop" => (edf_log.ok <=> edf_log.size_before > 0)
        /\ (edf_log.op = "pop" /\ edf_log.ok) =>
               \A t \in QueuedTasks(edf) : edf_log.task.deadline <= t.deadline
        /\ \A i, j \in DOMAIN edf_log.run :
               i < j => edf_log.run[i] <= edf_log.run[j]

\* Two tasks of different deadlines were popped in a row and one is left.
C21_Witness ==
    /\ edf.impl_ = "kLocked"
    /\ edf_log.op = "pop"
    /\ edf_log.ok
    /\ Len(edf_log.run) >= 2
    /\ edf_log.run[1] # edf_log.run[2]
    /\ QueuedTasks(edf) # {}

\* CLAIM C22: for an EDFQueue of either implementation, the histogram
\* written by get_slack_histogram at a quiescent instant sums to size().
C22_HistogramSumsToSize ==
    edf_log.op = "hist" =>
        SumBins(edf_log.hist, kSlackHistogramBins - 1) = edf_size(edf)

\* CLAIM C23: in the histogram taken from an EDF queue at instant now, bin 0
\* is exactly the number of queued tasks with deadline <= now.
C23_BinZeroCountsExpired ==
    edf_log.op = "hist" =>
        edf_log.hist[0] =
            Cardinality({t \in QueuedTasks(edf) : t.deadline <= edf_log.at})

C37_WheelWorkConserving ==
    [][ ( /\ edf_log' # edf_log
          /\ edf_log'.op = "pop"
          /\ edf.impl_ = "kTimingWheel"
          /\ edf_size(edf) > 0 ) =>
          ( /\ edf_log'.ok
            /\ edf_log'.task \in QueuedTasks(edf)
            /\ edf_size(edf') = edf_size(edf) - 1 ) ]_vars

(***************************************************************************)
(* SpecWorkerStop: the split worker with stop() called from the signal      *)
(* handler at any moment.  Every thread that can take a step eventually     *)
(* takes one, and the clock advances while a compute thread busy-waits.     *)
(***************************************************************************)
InitWorkerStop ==
    /\ now = 0
    /\ ClientIdle
    /\ LBIdle
    /\ E2EIdle
    /\ SchedIdle
    /\ wk = WorkerInit(0)
    /\ wk_next = 0
    /\ wk_out = {}
    /\ wk_order = [pushed |-> <<>>, sent |-> <<>>]
    /\ wk_run = WorkerRunInit

StopTick ==
    /\ \/ now < WkMaxTime
       \/ \E th \in ComputeThreads : wk.held[th] # <<>> /\ ~SimulatorDone(wk, th, now)
    /\ now' = now + 1
    /\ UNCHANGED <<clientVars, lbVars, wkVars, e2eVars, schVars>>

\* signal_handler calls stop().
WorkerStopCall ==
    /\ wk_run.stop_pc = "none"
    /\ wk_run' = stop_clear(wk_run)
    /\ UNCHANGED <<now, clientVars, lbVars, e2eVars, schVars, wk, wk_next, wk_out,
                   wk_order>>

\* The joins of stop() return and it deletes rpc_.
WorkerStopJoin ==
    /\ wk_run.stop_pc = "joining"
    /\ \A th \in ComputeThreads : wk_run.pc[th] = "exited"
    /\ wk_run' = stop_join(wk_run)
    /\ UNCHANGED <<now, clientVars, lbVars, e2eVars, schVars, wk, wk_next, wk_out,
                   wk_order>>

\* The I/O thread evaluates the condition of start()'s loop.
StopIOCheck ==
    /\ wk_run.pc[IOThread] = "check"
    /\ wk_run' = loop_check(wk_run, IOThread)
    /\ UNCHANGED <<now, clientVars, lbVars, e2eVars, schVars, wk, wk_next, wk_out,
                   wk_order>>

\* rpc_->run_event_loop_once() in the loop body.  Once stop() has deleted
\* rpc_ the call is on a null pointer: it may fault, or return having done
\* nothing.
StopIOEventLoop ==
    /\ wk_run.pc[IOThread] = "body"
    /\ wk.io_pc = "event_loop"
    /\ IF wk_run.rpc_ = "deleted"
       THEN \E faults \in BOOLEAN :
               /\ wk_run' = IF faults THEN [wk_run EXCEPT !.pc[IOThread] = "crashed"]
                             ELSE wk_run
               /\ wk' = IF faults THEN wk ELSE process_completions_begin(wk)
               /\ wk_next' = wk_next
       ELSE \E arrived \in BOOLEAN :
               LET request == [ request_id |-> wk_next, deadline |-> now + 1,
                                service_time_hint |-> 1 ]
                   delivered == IF arrived THEN << <<wk_next, request>> >> ELSE <<>>
               IN  /\ arrived => wk_next < WkMaxReq
                   /\ wk' = process_completions_begin(
                                run_event_loop_once(wk, IOThread, delivered, now))
                   /\ wk_next' = IF arrived THEN wk_next + 1 ELSE wk_next
                   /\ wk_run' = wk_run
    /\ UNCHANGED <<now, clientVars, lbVars, e2eVars, schVars, wk_out, wk_order>>

\* process_completions() in the loop body, one pass of its loop; when the
\* loop ends the I/O thread is back at the condition of start()'s loop.
StopIOCompletions ==
    /\ wk_run.pc[IOThread] = "body"
    /\ wk.io_pc = "completions"
    /\ LET r == IF wk_run.rpc_ = "alive" THEN process_completions_step(wk, IOThread)
                ELSE process_completions_step_no_rpc(wk)
       IN  /\ wk' = r.wk
           /\ wk_out' = wk_out \cup r.resp
           /\ wk_order' = [wk_order EXCEPT !.sent = @ \o RespondedIds(wk, r.wk)]
           /\ wk_run' = IF r.wk.io_pc = "event_loop"
                         THEN [wk_run EXCEPT !.pc[IOThread] = "check"]
                         ELSE wk_run
    /\ UNCHANGED <<now, clientVars, lbVars, e2eVars, schVars, wk_next>>

\* Compute thread th evaluates the condition of compute_thread_main's loop.
ComputeCheckOf(th) ==
    /\ wk_run.pc[th] = "check"
    /\ wk_run' = loop_check(wk_run, th)
    /\ UNCHANGED <<now, clientVars, lbVars, e2eVars, schVars, wk, wk_next, wk_out,
                   wk_order>>

\* Compute thread th calls process_tasks: without a task it sleeps and
\* returns to the loop condition.
ComputePopOf(th) ==
    /\ wk_run.pc[th] = "body"
    /\ wk.held[th] = <<>>
    /\ wk' = process_tasks_pop(wk, th, now)
    /\ wk_run' = IF wk'.held[th] = <<>> THEN [wk_run EXCEPT !.pc[th] = "check"]
                  ELSE wk_run
    /\ UNCHANGED <<now, clientVars, lbVars, e2eVars, schVars, wk_next, wk_out,
                   wk_order>>

\* Compute thread th finishes process_tasks and returns to the loop condition.
ComputeFinishOf(th) ==
    /\ wk_run.pc[th] = "body"
    /\ wk.held[th] # <<>>
    /\ SimulatorDone(wk, th, now)
    /\ LET r == process_tasks_finish(wk, th, now)
       IN  /\ wk' = r.wk
           /\ wk_out' = wk_out \cup r.resp
           /\ wk_order' = [wk_order EXCEPT !.pushed = @ \o PushedIds(wk, r.wk),
                                            !.sent = @ \o RespondedIds(wk, r.wk)]
    /\ wk_run' = [wk_run EXCEPT !.pc[th] = "check",
                                 !.after_stop[th] = IF wk_run.running_ THEN @ ELSE @ + 1]
    /\ UNCHANGED <<now, clientVars, lbVars, e2eVars, schVars, wk_next>>

ComputeStepOf(th) == ComputeCheckOf(th) \/ ComputePopOf(th) \/ ComputeFinishOf(th)

StopComputeCheck == \E th \in ComputeThreads : ComputeCheckOf(th)

StopComputePop == \E th \in ComputeThreads : ComputePopOf(th)

StopComputeFinish == \E th \in ComputeThreads : ComputeFinishOf(th)

NextWorkerStop ==
    \/ StopTick
    \/ WorkerStopCall
    \/ WorkerStopJoin
    \/ StopIOCheck
    \/ StopIOEventLoop
    \/ StopIOCompletions
    \/ StopComputeCheck
    \/ StopComputePop
    \/ StopComputeFinish

SpecWorkerStop ==
    /\ InitWorkerStop
    /\ [][NextWorkerStop]_vars
    /\ WF_vars(StopTick)
    /\ WF_vars(WorkerStopJoin)
    /\ WF_vars(StopIOCheck)
    /\ WF_vars(StopIOEventLoop)
    /\ WF_vars(StopIOCompletions)
    /\ \A th \in ComputeThreads : WF_vars(ComputeStepOf(th))

\* CLAIM C26: after stop() has cleared running_, every thread eventually
\* terminates by leaving its loop: the I/O thread after its current
\* iteration, each compute thread after finishing at most one task.
C26_AllThreadsExitAfterStop ==
    /\ (wk_run.running_ = FALSE) ~> (\A th \in Threads : wk_run.pc[th] = "exited")
    /\ [](\A th \in ComputeThreads : wk_run.after_stop[th] <= 1)

(***************************************************************************)
(* SpecWorkerFair: the split worker that is never stopped, with an I/O      *)
(* thread and compute threads that keep running: start()'s loop and         *)
(* compute_thread_main's loop have no blocking call, so a thread that can   *)
(* take its next step takes it, and the clock advances while a compute      *)
(* thread busy-waits in the simulator.                                      *)
(***************************************************************************)
\* The clock, read here by the busy-wait of WorkloadSimulator::process: it
\* advances while a compute thread waits for it.
BusyWaitTick ==
    /\ \E th \in ComputeThreads : wk.held[th] # <<>> /\ ~SimulatorDone(wk, th, now)
    /\ now' = now + 1
    /\ UNCHANGED <<clientVars, lbVars, wkVars, e2eVars, schVars>>

\* The steps of compute thread th.
WorkerComputeOf(th) ==
    /\ WorkerComputePop \/ WorkerComputeFinish
    /\ wk'.held[th] # wk.held[th]

InitWorkerFair ==
    /\ InitWorker
    /\ wk.clock_skew = 0

NextWorkerFair ==
    \/ BusyWaitTick
    \/ WorkerEventLoop
    \/ WorkerCompletions
    \/ WorkerComputePop
    \/ WorkerComputeFinish

SpecWorkerFair ==
    /\ InitWorkerFair
    /\ [][NextWorkerFair]_vars
    /\ WF_vars(BusyWaitTick)
    /\ WF_vars(WorkerEventLoop)
    /\ WF_vars(WorkerCompletions)
    /\ \A th \in ComputeThreads : WF_vars(WorkerComputeOf(th))

\* The requests request_handler has run for, and the queued ones.
Received == DOMAIN wk.stage_log

QueuedIds(queue) == {queue[i].request_id : i \in DOMAIN queue}

\* CLAIM C38: in the split worker that is not stopped, with an I/O thread and
\* compute threads that keep taking steps, every request delivered to
\* request_handler is eventually answered with enqueue_response, and no task
\* stays in task_queue_ or completion_queue_ forever, although one iteration of
\* the I/O loop answers at most kCompletionBatch completions.
C38_EveryRequestAnswered ==
    \A id \in 0..(WkMaxReq - 1) :
        (id \in Received) ~>
            ( /\ \E o \in wk_out : o.resp.request_id = id
              /\ id \notin QueuedIds(wk.task_queue_)
              /\ id \notin QueuedIds(wk.completion_queue_) )

\* process_completions has used up its batch with a completion still queued:
\* one request is answered, the next waits for another iteration of the loop.
C38_Witness ==
    /\ wk.io_pc = "completions"
    /\ wk.batch_size = 0
    /\ wk.completion_queue_ # <<>>
    /\ wk_out # {}

(***************************************************************************)
(* SpecLocks: the mutexes of the load balancer and of the timing wheel.     *)
(* A call is the sequence of lock and unlock operations its code performs;  *)
(* the LB's event-loop thread runs the two handlers, its state thread runs  *)
(* update_worker_states, and two threads use one timing wheel.              *)
(***************************************************************************)
Lock(m) == <<"lock", m>>
Unlock(m) == <<"unlock", m>>
\* The LB has one of each of its two mutexes; the wheel has one per bucket.
state_mutex_ == <<"state_mutex_", 0>>
pending_mutex_ == <<"pending_mutex_", 0>>
BucketMutex(b) == <<"mutex", b>>

Mutexes == {state_mutex_, pending_mutex_} \cup {BucketMutex(b) : b \in WheelBuckets}

WheelUsers == {"wheel_user_1", "wheel_user_2"}
LockThreads == {"event_loop", "state_update"} \cup WheelUsers

\* LBContext::client_request_handler: three lock_guard scopes in a row.
client_request_handler_locks ==
    << Lock(state_mutex_), Unlock(state_mutex_),
       Lock(pending_mutex_), Unlock(pending_mutex_),
       Lock(state_mutex_), Unlock(state_mutex_) >>

\* LBContext::worker_response_callback: the pending scope, left by return
\* when the id is unknown, then the state scope.
worker_response_callback_locks_nested(unknown) ==
    IF unknown THEN << Lock(pending_mutex_), Unlock(pending_mutex_) >>
    ELSE << Lock(pending_mutex_), Lock(state_mutex_),
            Unlock(state_mutex_), Unlock(pending_mutex_) >>

worker_response_callback_locks(unknown) ==
    IF unknown THEN << Lock(pending_mutex_), Unlock(pending_mutex_) >>
    ELSE << Lock(pending_mutex_), Unlock(pending_mutex_),
            Lock(state_mutex_), Unlock(state_mutex_) >>

\* LBContext::update_worker_states.
update_worker_states_locks == << Lock(state_mutex_), Unlock(state_mutex_) >>

\* HierarchicalTimingWheel::insert into bucket bucket_idx.
insert_locks(bucket_idx) ==
    << Lock(BucketMutex(bucket_idx)), Unlock(BucketMutex(bucket_idx)) >>

\* HierarchicalTimingWheel::try_get_urgent from offset on, when the first
\* non-empty bucket is met in iteration found_at of the loop (none if
\* found_at is kNumBuckets \div 8).
RECURSIVE try_get_urgent_locks(_, _, _)
try_get_urgent_locks(current_bucket, offset, found_at) ==
    IF offset >= kNumBuckets \div 8 \/ offset > found_at THEN <<>>
    ELSE LET idx == ScanIndex(current_bucket, offset)
         IN  << Lock(BucketMutex(idx)), Unlock(BucketMutex(idx)) >>
               \o try_get_urgent_locks(current_bucket, offset + 1, found_at)

\* HierarchicalTimingWheel::get_slack_histogram from bucket b on.
RECURSIVE get_slack_histogram_locks(_)
get_slack_histogram_locks(b) ==
    IF b >= kNumBuckets THEN <<>>
    ELSE << Lock(BucketMutex(b)), Unlock(BucketMutex(b)) >>
           \o get_slack_histogram_locks(b + 1)

\* The calls thread th can make.
CallsOf(th) ==
    IF th = "event_loop"
    THEN {client_request_handler_locks}
           \cup {worker_response_callback_locks(unknown) : unknown \in BOOLEAN}
    ELSE IF th = "state_update" THEN {update_worker_states_locks}
    ELSE {insert_locks(b) : b \in WheelBuckets}
           \cup {try_get_urgent_locks(c, 0, f) :
                     c \in WheelBuckets, f \in 0..(kNumBuckets \div 8)}
           \cup {get_slack_histogram_locks(0)}

InitLocks ==
    /\ now = 0
    /\ ClientIdle
    /\ LBIdle
    /\ WorkerIdle
    /\ E2EIdle
    /\ sch_in = EmptyMap
    /\ sch_out = EmptyMap
    /\ edf = EmptyMap
    /\ edf_log = EmptyMap
    /\ AuxIdle
    /\ lk = [ owner |-> [m \in Mutexes |-> "free"],
              todo  |-> [th \in LockThreads |-> <<>>] ]

\* Thread th, between two calls, enters one.
LockCall ==
    \E th \in LockThreads : \E call \in CallsOf(th) :
        /\ lk.todo[th] = <<>>
        /\ call # <<>>
        /\ lk' = [lk EXCEPT !.todo[th] = call]
        /\ UNCHANGED <<now, clientVars, lbVars, wkVars, e2eVars, sch_in, sch_out, edf,
                       edf_log, auxVars>>

\* std::lock_guard's constructor returns once the mutex is free.
LockAcquire ==
    \E th \in DOMAIN lk.todo :
        /\ lk.todo[th] # <<>>
        /\ Head(lk.todo[th])[1] = "lock"
        /\ lk.owner[Head(lk.todo[th])[2]] = "free"
        /\ lk' = [lk EXCEPT !.owner[Head(lk.todo[th])[2]] = th,
                            !.todo[th] = Tail(@)]
        /\ UNCHANGED <<now, clientVars, lbVars, wkVars, e2eVars, sch_in, sch_out, edf,
                       edf_log, auxVars>>

\* The end of a lock_guard's scope.
LockRelease ==
    \E th \in DOMAIN lk.todo :
        /\ lk.todo[th] # <<>>
        /\ Head(lk.todo[th])[1] = "unlock"
        /\ lk' = [lk EXCEPT !.owner[Head(lk.todo[th])[2]] = "free",
                            !.todo[th] = Tail(@)]
        /\ UNCHANGED <<now, clientVars, lbVars, wkVars, e2eVars, sch_in, sch_out, edf,
                       edf_log, auxVars>>

NextLocks == LockCall \/ LockAcquire \/ LockRelease

SpecLocks == InitLocks /\ [][NextLocks]_vars

\* The mutexes th holds, the mutex it is about to acquire (none: {}), and
\* whether it waits for a mutex another thread holds.
HeldBy(th) == {m \in Mutexes : lk.owner[m] = th}

Wanted(th) ==
    IF lk.todo[th] # <<>> /\ Head(lk.todo[th])[1] = "lock"
    THEN {Head(lk.todo[th])[2]} ELSE {}

Blocked(th) == \E m \in Wanted(th) : lk.owner[m] # "free"

BucketMutexes == {BucketMutex(b) : b \in WheelBuckets}

\* CLAIM C28: no thread waits for a mutex while holding another in a
\* conflicting order: a thread holding pending_mutex_ never acquires
\* state_mutex_ (the two are never held together), no thread holds or
\* acquires a bucket mutex while holding one, and no set of threads wait for
\* each other.
C28_NoConflictingLockOrder ==
    /\ \A th \in LockThreads :
           pending_mutex_ \in HeldBy(th) =>
               state_mutex_ \notin (HeldBy(th) \cup Wanted(th))
    /\ \A th \in LockThreads :
           Cardinality((HeldBy(th) \cup Wanted(th)) \cap BucketMutexes) <= 1
    /\ \A S \in (SUBSET LockThreads) \ {{}} :
           ~(\A th \in S : \E m \in Wanted(th) : lk.owner[m] \in S)

\* The event-loop thread waits for state_mutex_, held by the state thread,
\* while one wheel user waits for a bucket the other has locked.
C28_Witness ==
    /\ Blocked("event_loop")
    /\ lk.owner[state_mutex_] = "state_update"
    /\ \E u \in WheelUsers : Blocked(u)

(***************************************************************************)
(* SpecGen: RequestGenerator::generate and the request fill of the client's *)
(* send site, for two clients with the same seed whose configurations       *)
(* differ in the deadline parameters only.  Service times and the deadline  *)
(* multiplier are doubles in the source; here they are kept in tenths.      *)
(***************************************************************************)
GenMaxTime == 2
GenMaxReq == 1

Distributions == {"kPareto", "kLognormal", "kBimodal", "kUniform"}
RequestTypes == {"kGetRequest", "kPutRequest", "kScanRequest", "kCompute"}

\* RequestGeneratorConfig: service_time_min_us is 10; the deadline multiplier
\* is 5 or 20, the fixed deadline 0 (unused), 1 or 2 us.
DeadlineConfigs == [ deadline_multiplier : {50, 200}, fixed_deadline_us : {0, 1, 2} ]

GenConfig(distribution, dl) ==
    [ distribution        |-> distribution,
      service_time_min_us |-> 100,
      deadline_multiplier |-> dl.deadline_multiplier,
      fixed_deadline_us   |-> dl.fixed_deadline_us ]

\* Values (in tenths of a microsecond) the sample of service_us can take:
\* Pareto x_min / u^(1/alpha) >= x_min; lognormal any positive value (0.1,
\* 2.3 and 10 us here); bimodal max(1.0, .); uniform x_min * (1 + u).
Samples(config) ==
    CASE config.distribution = "kPareto" ->
             {config.service_time_min_us, 3 * config.service_time_min_us}
      [] config.distribution = "kLognormal" -> {1, 23, 100}
      [] config.distribution = "kBimodal" -> {10, 100}
      [] config.distribution = "kUniform" ->
             {config.service_time_min_us,
              config.service_time_min_us + config.service_time_min_us \div 2}

\* RequestGenerator::generate at clock reading t, with the request type and
\* the service time the random draws gave.
RequestGenerator_generate(G, t, type, service_us) ==
    LET req == [ request_id  |-> G.next_id_,
                 client_send_time |-> t,
                 type        |-> type,
                 expected_service_us |-> service_us \div 10,
                 deadline    |->
                     IF G.config_.fixed_deadline_us > 0
                     THEN t + us_to_ns(G.config_.fixed_deadline_us)
                     ELSE t + us_to_ns((service_us * G.config_.deadline_multiplier)
                                          \div 100) ]
    IN  [ gen |-> [G EXCEPT !.next_id_ = @ + 1], req |-> req ]

\* The send site from the call of generate to the re-stamping of the send
\* time: `creq.request_id = local_req_id++; creq.client_send_time = now_ns()`.
Restamp(creq, local_req_id, t) ==
    [creq EXCEPT !.request_id = local_req_id, !.client_send_time = t]

\* The fill of the RpcClientRequest.
FillRequestHintFromDeadline(creq) ==
    [ request_id        |-> creq.request_id,
      client_send_time  |-> creq.client_send_time,
      deadline          |-> creq.deadline,
      service_time_hint |-> ns_to_us(creq.deadline - creq.client_send_time),
      request_type      |-> creq.type ]

FillRequest(creq) ==
    [ request_id        |-> creq.request_id,
      client_send_time  |-> creq.client_send_time,
      deadline          |-> creq.deadline,
      service_time_hint |-> creq.expected_service_us,
      request_type      |-> creq.type ]

\* The busy-wait target of WorkloadSimulator::process for the hint of a
\* request, in tenths of a microsecond (capacity factor 1): process_tasks
\* replaces a hint of 0 by 10.
SimulatorTarget(rpc_req) ==
    LET expected_us == IF rpc_req.service_time_hint > 0
                       THEN rpc_req.service_time_hint ELSE 10
        adjusted_us == expected_us
    IN  CASE rpc_req.request_type = "kGetRequest" -> 10 * adjusted_us
          [] rpc_req.request_type = "kPutRequest" -> 10 * ((adjusted_us * 12) \div 10)
          [] rpc_req.request_type = "kScanRequest" -> 10 * (adjusted_us * 2)
          [] rpc_req.request_type = "kCompute" -> 10 * ((adjusted_us * 15) \div 10)

\* One client: its generator, local_req_id, the request generated and not yet
\* filled in, and what it has put on the wire.
GenClientInit(config) ==
    [ g            |-> [config_ |-> config, next_id_ |-> 0],
      local_req_id |-> 0,
      creq         |-> <<>>,
      sent         |-> <<>> ]

InitGen ==
    /\ now = 0
    /\ ClientIdle
    /\ LBIdle
    /\ WorkerIdle
    /\ E2EIdle
    /\ sch_in = EmptyMap
    /\ sch_out = EmptyMap
    /\ edf = EmptyMap
    /\ edf_log = EmptyMap
    /\ lk = EmptyMap
    /\ spsc = EmptyMap
    /\ \E distribution \in Distributions, dl1 \in DeadlineConfigs, dl2 \in DeadlineConfigs :
           gen = [ a |-> GenClientInit(GenConfig(distribution, dl1)),
                   b |-> GenClientInit(GenConfig(distribution, dl2)) ]

GenTick ==
    /\ now < GenMaxTime
    /\ now' = now + 1
    /\ UNCHANGED <<clientVars, lbVars, wkVars, e2eVars, schVars>>

\* Both clients reach `gen.generate()`: the same seed gives both the same
\* draws.
GenGenerate ==
    /\ gen.a.creq = <<>>
    /\ gen.a.local_req_id < GenMaxReq
    /\ \E type \in RequestTypes, service_us \in Samples(gen.a.g.config_) :
          LET ra == RequestGenerator_generate(gen.a.g, now, type, service_us)
              rb == RequestGenerator_generate(gen.b.g, now, type, service_us)
          IN  gen' = [gen EXCEPT !.a.g = ra.gen, !.a.creq = <<ra.req>>,
                                 !.b.g = rb.gen, !.b.creq = <<rb.req>>]
    /\ UNCHANGED <<now, clientVars, lbVars, wkVars, e2eVars, sch_in, sch_out, edf,
                   edf_log, lk, spsc>>

\* Both clients re-stamp the request, fill the RpcClientRequest and enqueue
\* it.
GenSendOf(c) ==
    LET creq == Restamp(c.creq[1], c.local_req_id, now)
    IN  [c EXCEPT !.local_req_id = @ + 1,
                  !.creq = <<>>,
                  !.sent = Append(@, FillRequest(creq))]

GenSend ==
    /\ gen.a.creq # <<>>
    /\ gen' = [gen EXCEPT !.a = GenSendOf(gen.a), !.b = GenSendOf(gen.b)]
    /\ UNCHANGED <<now, clientVars, lbVars, wkVars, e2eVars, sch_in, sch_out, edf,
                   edf_log, lk, spsc>>

NextGen == GenTick \/ GenGenerate \/ GenSend

SpecGen == InitGen /\ [][NextGen]_vars

\* CLAIM C31: every request on the wire has a deadline strictly greater than
\* its client_send_time, whatever the distribution, the configuration and the
\* delay between generate() and the re-stamping of the send time; the request
\* ids a client sends are strictly increasing.
C31_DeadlineAfterSendTime ==
    /\ \A k \in 1..Len(gen.a.sent) :
           gen.a.sent[k].deadline > gen.a.sent[k].client_send_time
    /\ \A k \in 1..Len(gen.a.sent), j \in 1..Len(gen.a.sent) :
           k < j => gen.a.sent[k].request_id < gen.a.sent[j].request_id

\* CLAIM C32: two clients with the same seed and distribution that differ
\* only in deadline_multiplier or fixed_deadline_us put the same sequence of
\* service_time_hint values on the wire, and the worker's simulated service
\* target for them is the same.
C32_HintIndependentOfDeadline ==
    /\ Len(gen.a.sent) = Len(gen.b.sent)
    /\ \A k \in 1..Len(gen.a.sent) :
           /\ gen.a.sent[k].service_time_hint = gen.b.sent[k].service_time_hint
           /\ SimulatorTarget(gen.a.sent[k]) = SimulatorTarget(gen.b.sent[k])

\* A request is on the wire whose deadline differs between the two clients,
\* with a non-zero hint and a type that scales the target.
C32_Witness ==
    /\ Len(gen.a.sent) >= 1
    /\ gen.a.sent[1].deadline # gen.b.sent[1].deadline
    /\ gen.a.sent[1].service_time_hint > 0
    /\ gen.a.sent[1].request_type = "kCompute"

(***************************************************************************)
(* SpecWorkerLocks: the I/O thread and the compute threads of the split     *)
(* worker at the grain of the two queues' mutexes.  Every thread follows    *)
(* the sequence of operations its code performs; the service simulation is  *)
(* one operation that lasts as long as it likes.                            *)
(***************************************************************************)
TaskMutex == <<"task_queue_", 0>>
CompletionMutex == <<"completion_queue_", 0>>
QueuePush(m) == <<"push", m>>
QueueTryPop(m) == <<"try_pop", m>>
Simulate == <<"simulate", TaskMutex>>

\* The requests that arrive: one more than there are compute threads.
WLMaxReq == 3

WLCompute == {"compute_1", "compute_2"}
WLThreads == {"io"} \cup WLCompute

\* WorkerContext::request_handler: task_queue_.push under the queue's mutex.
request_handler_locks ==
    << Lock(TaskMutex), QueuePush(TaskMutex), Unlock(TaskMutex) >>

\* One evaluation of `completion_queue_.try_pop(task)` in process_completions
\* and one of `task_queue_.try_pop(task)` in process_tasks, up to the test of
\* the queue.
process_completions_locks == << Lock(CompletionMutex), QueueTryPop(CompletionMutex) >>

process_tasks_locks == << Lock(TaskMutex), QueueTryPop(TaskMutex) >>

\* process_tasks after try_pop has tested the queue: without a task the guard
\* is released and the thread sleeps; with one, the guard is released, the
\* work is simulated and the task is pushed into completion_queue_.
process_tasks_after_pop_holding(ok) ==
    IF ~ok THEN << Unlock(TaskMutex) >>
    ELSE << Simulate, Unlock(TaskMutex), Lock(CompletionMutex),
            QueuePush(CompletionMutex), Unlock(CompletionMutex) >>

process_tasks_after_pop(ok) ==
    IF ~ok THEN << Unlock(TaskMutex) >>
    ELSE << Unlock(TaskMutex), Simulate, Lock(CompletionMutex),
            QueuePush(CompletionMutex), Unlock(CompletionMutex) >>

\* process_completions after try_pop has tested the queue: with a task the
\* response is filled (queue_length() locks task_queue_) and the loop goes on
\* while batch_size allows.
process_completions_after_pop(ok, batch_left) ==
    IF ~ok THEN << Unlock(CompletionMutex) >>
    ELSE << Unlock(CompletionMutex), Lock(TaskMutex), Unlock(TaskMutex) >>
           \o (IF batch_left > 0 THEN process_completions_locks ELSE <<>>)

InitWorkerLocks ==
    /\ now = 0
    /\ ClientIdle
    /\ LBIdle
    /\ WorkerIdle
    /\ E2EIdle
    /\ sch_in = EmptyMap
    /\ sch_out = EmptyMap
    /\ edf = EmptyMap
    /\ edf_log = EmptyMap
    /\ AuxIdle
    /\ lk = [ owner  |-> [m \in {TaskMutex, CompletionMutex} |-> "free"],
              todo   |-> [th \in WLThreads |-> <<>>],
              len    |-> [m \in {TaskMutex, CompletionMutex} |-> 0],
              batch  |-> 0,
              pushes |-> 0 ]    \* history: the calls of request_handler

\* An iteration of start()'s loop begins: run_event_loop_once() runs
\* request_handler if a request has arrived, then process_completions starts.
WLIOCall ==
    /\ lk.todo["io"] = <<>>
    /\ \E arrived \in BOOLEAN :
          /\ arrived => lk.pushes < WLMaxReq
          /\ lk' = [lk EXCEPT
                       !.todo["io"] = (IF arrived THEN request_handler_locks ELSE <<>>)
                                         \o process_completions_locks,
                       !.batch = kCompletionBatch,
                       !.pushes = IF arrived THEN @ + 1 ELSE @]
    /\ UNCHANGED <<now, clientVars, lbVars, wkVars, e2eVars, sch_in, sch_out, edf,
                   edf_log, auxVars>>

\* A compute thread enters process_tasks.
WLComputeCall ==
    \E th \in WLCompute :
        /\ lk.todo[th] = <<>>
        /\ lk' = [lk EXCEPT !.todo[th] = process_tasks_locks]
        /\ UNCHANGED <<now, clientVars, lbVars, wkVars, e2eVars, sch_in, sch_out, edf,
                       edf_log, auxVars>>

\* A thread performs the queue operation, or ends the simulation, it has
\* reached.
WLStepOf(th) ==
    LET op == Head(lk.todo[th])
        m  == op[2]
        ok == lk.len[m] > 0
    IN  CASE op[1] = "push" ->
                 [lk EXCEPT !.len[m] = @ + 1, !.todo[th] = Tail(@)]
          [] op[1] = "simulate" ->
                 [lk EXCEPT !.todo[th] = Tail(@)]
          [] op[1] = "try_pop" /\ th = "io" ->
                 [lk EXCEPT !.len[m] = IF ok THEN @ - 1 ELSE @,
                            !.batch = @ - 1,
                            !.todo[th] = process_completions_after_pop(ok, lk.batch - 1)]
          [] op[1] = "try_pop" /\ th # "io" ->
                 [lk EXCEPT !.len[m] = IF ok THEN @ - 1 ELSE @,
                            !.todo[th] = process_tasks_after_pop(ok)]

WLStep ==
    \E th \in WLThreads :
        /\ lk.todo[th] # <<>>
        /\ Head(lk.todo[th])[1] \in {"push", "try_pop", "simulate"}
        /\ lk' = WLStepOf(th)
        /\ UNCHANGED <<now, clientVars, lbVars, wkVars, e2eVars, sch_in, sch_out, edf,
                       edf_log, auxVars>>

NextWorkerLocks == WLIOCall \/ WLComputeCall \/ WLStep \/ LockAcquire \/ LockRelease

SpecWorkerLocks == InitWorkerLocks /\ [][NextWorkerLocks]_vars

AllSimulating ==
    \A th \in WLCompute : lk.todo[th] # <<>> /\ Head(lk.todo[th]) = Simulate

CapacityBits == 2
Capacity == 2 ^ CapacityBits

\* The successful try_push calls of a behaviour.
SpscMaxPush == 6

\* `x & (Capacity - 1)`.
Wrap(x) == x % Capacity

\* A slot `new T[Capacity]` left default-initialised, and a slot moved from.
Uninitialised == "uninitialised"
MovedFrom == "moved-from"

\* SPSCQueue::SPSCQueue.
SPSCQueueInit ==
    [ buffer_ |-> [i \in 0..(Capacity - 1) |-> Uninitialised], head_ |-> 0, tail_ |-> 0 ]

\* The test of try_push, `next_head == tail_.load(acquire)`.
try_push_full_unchecked(next_head, tail) == FALSE

try_push_full(next_head, tail) == next_head = tail

\* The test of try_pop, `tail == head_.load(acquire)`.
try_pop_empty(tail, head) == tail = head

\* SPSCQueue::size_approx.
size_approx(q) == Wrap(q.head_ - q.tail_ + Capacity)

InitSPSC ==
    /\ now = 0
    /\ ClientIdle
    /\ LBIdle
    /\ WorkerIdle
    /\ E2EIdle
    /\ sch_in = EmptyMap
    /\ sch_out = EmptyMap
    /\ edf = EmptyMap
    /\ edf_log = EmptyMap
    /\ lk = EmptyMap
    /\ gen = EmptyMap
    /\ spsc = [ q |-> SPSCQueueInit,
                p_pc |-> "idle", head |-> 0, next_head |-> 0, item |-> 0,
                c_pc |-> "idle", tail |-> 0, out |-> 0,
                pushed |-> <<>>,     \* history: the items try_push accepted
                popped |-> <<>>,     \* history: the items try_pop returned
                rejected |-> 0,      \* history: the try_push calls that returned false
                last_push |-> TRUE ] \* history: what the last try_push returned

SPSCUnchanged == UNCHANGED <<now, clientVars, lbVars, wkVars, e2eVars, sch_in, sch_out,
                             edf, edf_log, lk, gen>>

\* try_push(item): `head = head_.load(relaxed); next_head = (head + 1) & ...`.
\* Item n is the n-th item the producer offers after the accepted ones.
PushLoadHead ==
    /\ spsc.p_pc = "idle"
    /\ Len(spsc.pushed) < SpscMaxPush
    /\ spsc' = [spsc EXCEPT !.p_pc = "load_tail",
                            !.head = spsc.q.head_,
                            !.next_head = Wrap(spsc.q.head_ + 1),
                            !.item = Len(spsc.pushed) + 1]
    /\ SPSCUnchanged

\* `if (next_head == tail_.load(acquire)) return false;`.
PushLoadTail ==
    /\ spsc.p_pc = "load_tail"
    /\ IF try_push_full(spsc.next_head, spsc.q.tail_)
       THEN spsc' = [spsc EXCEPT !.p_pc = "idle", !.last_push = FALSE,
                                 !.rejected = IF @ < 1 THEN @ + 1 ELSE @]
       ELSE spsc' = [spsc EXCEPT !.p_pc = "write"]
    /\ SPSCUnchanged

\* `buffer_[head] = std::move(item);`.
PushWrite ==
    /\ spsc.p_pc = "write"
    /\ spsc' = [spsc EXCEPT !.p_pc = "store", !.q.buffer_[spsc.head] = spsc.item]
    /\ SPSCUnchanged

\* `head_.store(next_head, release); return true;`.
PushStoreHead ==
    /\ spsc.p_pc = "store"
    /\ spsc' = [spsc EXCEPT !.p_pc = "idle", !.q.head_ = spsc.next_head,
                            !.pushed = Append(@, spsc.item), !.last_push = TRUE]
    /\ SPSCUnchanged

\* try_pop(item): `tail = tail_.load(relaxed);`.
PopLoadTail ==
    /\ spsc.c_pc = "idle"
    /\ spsc' = [spsc EXCEPT !.c_pc = "load_head", !.tail = spsc.q.tail_]
    /\ SPSCUnchanged

\* `if (tail == head_.load(acquire)) return false;`.
PopLoadHead ==
    /\ spsc.c_pc = "load_head"
    /\ IF try_pop_empty(spsc.tail, spsc.q.head_)
       THEN spsc' = [spsc EXCEPT !.c_pc = "idle"]
       ELSE spsc' = [spsc EXCEPT !.c_pc = "read"]
    /\ SPSCUnchanged

\* `item = std::move(buffer_[tail]);`.
PopRead ==
    /\ spsc.c_pc = "read"
    /\ spsc' = [spsc EXCEPT !.c_pc = "store", !.out = spsc.q.buffer_[spsc.tail],
                            !.q.buffer_[spsc.tail] = MovedFrom]
    /\ SPSCUnchanged

\* `tail_.store((tail + 1) & (Capacity - 1), release); return true;`.
PopStoreTail ==
    /\ spsc.c_pc = "store"
    /\ spsc' = [spsc EXCEPT !.c_pc = "idle", !.q.tail_ = Wrap(spsc.tail + 1),
                            !.popped = Append(@, spsc.out)]
    /\ SPSCUnchanged

NextSPSC ==
    \/ PushLoadHead \/ PushLoadTail \/ PushWrite \/ PushStoreHead
    \/ PopLoadTail \/ PopLoadHead \/ PopRead \/ PopStoreTail

SpecSPSC == InitSPSC /\ [][NextSPSC]_vars

\* The items accepted and not yet handed out.
Held == Len(spsc.pushed) - Len(spsc.popped)

\* CLAIM C40: with one producer and one consumer running concurrently, the
\* items successful try_pop calls returned are a prefix of the items successful
\* try_push calls accepted; the queue never holds more than Capacity - 1 items;
\* and a try_push that finds the queue full returns false and leaves head_,
\* tail_ and the buffer as they were.
C40_SPSCIsFifo ==
    /\ [](IsPrefix(spsc.popped, spsc.pushed))
    /\ [](Held <= Capacity - 1 /\ size_approx(spsc.q) <= Capacity - 1)
    /\ [][ (spsc.p_pc = "load_tail" /\ spsc'.p_pc # "load_tail"
              /\ spsc.next_head = spsc.q.tail_) =>
             ( /\ spsc'.p_pc = "idle"
               /\ ~spsc'.last_push
               /\ spsc'.q = spsc.q
               /\ spsc'.pushed = spsc.pushed ) ]_vars

\* The ring has wrapped: a push was rejected on a full queue, every accepted
\* item has been handed out in order, and a slot has been used twice.
C40_Witness ==
    /\ spsc.rejected > 0
    /\ Len(spsc.pushed) = SpscMaxPush
    /\ spsc.popped = spsc.pushed
    /\ SpscMaxPush > Capacity

====
